---- MODULE Spec2Model ----
(***************************************************************************)
(* Fold extraction and sulcus identification of mindboggle, modelled from  *)
(* features/folds.py, features/sulci.py and extract/extract_folds.py.      *)
(*                                                                         *)
(* Arrays over the mesh are functions on the vertex set V.  The library    *)
(* routines of mindboggle.utils (find_neighbors, segment, fill_holes,      *)
(* extract_borders / detect_boundaries) follow sections 4.1 to 4.5 of the  *)
(* specification; the result of propagate is left open.                    *)
(***************************************************************************)
EXTENDS Integers, Sequences, FiniteSets, TLC

\* Number of mesh vertices the model tracks explicitly.
NV == 5

\* Largest min_fold_size argument tried.
MaxMinFoldSize == 3

\* folds.py:130  min_vertices = 10000
min_vertices == 10000

V == 1..NV

\* The mesh file that was read: which of the face lists below it holds.
VARIABLE mesh

\* The major version of the Python interpreter that runs the program: the
\* sources are written for Python 2 (print statements and xrange in
\* utils/io_vtk.py); the routines modelled here also run under Python 3.
VARIABLE python

Pythons == {2, 3}

\* mindboggle.utils.segment.segment is not among the sources, and section
\* 4.2 leaves two properties of the array it returns open.  The numbers of
\* the array are whole numbers kept as integers or as floating point
\* numbers (an array made with numpy.ones holds the latter).
VARIABLE segment_numbers

NumberKinds == {"int", "float"}

\* A seed starts its region wherever it lies, or only if it is one of the
\* vertices to segment ("flood fill restricted to candidates").
VARIABLE segment_seeds

SeedPolicies == {"anywhere", "candidates"}

\* The routine that runs makes no seeded call of segment and uses no number
\* of its array as an index: its steps are the same with every segment.
SegmentUnobserved ==
    /\ segment_numbers = "int"
    /\ segment_seeds = "anywhere"

\* The argument do_fill_holes of extract_folds and extract_sulci of
\* extract/extract_folds.py.
VARIABLE do_fill_holes

\* A chain of triangles (1,2,3), (3,4,5), ... closed by (NV-2, NV-1, NV).
chain ==
    {{i, i + 1, i + 2} : i \in {j \in 1..(NV - 2) : j % 2 = 1}}
        \cup {{NV - 2, NV - 1, NV}}

\* One triangle (2, NV-1, NV); the other tracked vertices are in no face.
islands == {{2, NV - 1, NV}}

Meshes == {"chain", "islands"}

\* The face list read from the mesh file.
faces == IF mesh = "islands" THEN islands ELSE chain

\* find_neighbors(faces, npoints): two vertices sharing a face are mutual
\* neighbors; a vertex in no face has no neighbors.
find_neighbors(fs) ==
    [v \in V |-> {w \in V \ {v} : \E f \in fs : v \in f /\ w \in f}]

chain_neighbor_lists == find_neighbors(chain)
islands_neighbor_lists == find_neighbors(islands)

\* neighbor_lists = find_neighbors(faces, npoints)
neighbor_lists ==
    IF mesh = "islands" THEN islands_neighbor_lists ELSE chain_neighbor_lists

Min(S) == CHOOSE x \in S : \A y \in S : x <= y
Max(S) == CHOOSE x \in S : \A y \in S : x >= y

\* The array -1 * np.ones(n).
AllMinusOne == [v \in V |-> -1]

RECURSIVE ArrayUpTo(_, _)
\* The values of a for the vertices 1..n, in a sequence.
ArrayUpTo(a, n) ==
    IF n = 0 THEN <<>> ELSE Append(ArrayUpTo(a, n - 1), a[n])

\* An array over the vertices with its NV values computed: the same function
\* as a.
Array(a) == ArrayUpTo(a, NV)

\* np.unique(a) restricted to the values other than -1.
UniqueIDs(a) == {a[v] : v \in V} \ {-1}

\* [i for i,x in enumerate(a) if x == n]
IndicesOf(a, n) == {v \in V : a[v] = n}

(***************************************************************************)
(* segment (section 4.2)                                                   *)
(***************************************************************************)
RECURSIVE Reach(_, _)
\* The vertices of cand reachable from the set seen through cand.
Reach(cand, seen) ==
    LET next == {w \in cand \ seen : \E u \in seen : w \in neighbor_lists[u]}
    IN  IF next = {} THEN seen ELSE Reach(cand, seen \cup next)

\* The maximal connected subset of cand that holds v.
Component(cand, v) == Reach(cand, {v})

RECURSIVE ScanComponents(_, _, _, _)
\* Unseeded segmentation: scan the candidates in index order and give the
\* next unused ID to the component of every unvisited candidate.
ScanComponents(cand, left, id, acc) ==
    IF left = {} THEN acc
    ELSE LET c == Component(cand, Min(left))
         IN  ScanComponents(cand, left \ c, id + 1,
                            [v \in V |-> IF v \in c THEN id ELSE acc[v]])

\* Discard every region with fewer than min_region_size vertices.
DropSmallRegions(a, min_region_size) ==
    [v \in V |->
        IF a[v] # -1 /\ Cardinality(IndicesOf(a, a[v])) < min_region_size
        THEN -1 ELSE a[v]]

\* segment(vertices_to_segment, neighbor_lists, min_region_size) with no
\* seeds.
segment(cand, min_region_size) ==
    Array(DropSmallRegions(Array(ScanComponents(cand, cand, 0, AllMinusOne)),
                           min_region_size))

RECURSIVE GrowSeeds(_, _)
\* Seeded growth, frontier by frontier: an unreached candidate next to
\* reached vertices joins the lowest of their seed numbers.
GrowSeeds(cand, acc) ==
    LET front == {w \in cand : acc[w] = -1
                     /\ \E u \in neighbor_lists[w] : acc[u] # -1}
        grown == [v \in V |->
                    IF v \in front
                    THEN Min({acc[u] : u \in {x \in neighbor_lists[v] :
                                                  acc[x] # -1}})
                    ELSE acc[v]]
    IN  IF grown = acc THEN acc ELSE GrowSeeds(cand, grown)

\* segment(vertices_to_segment, neighbor_lists, seed_lists, min_region_size):
\* seed_lists is a sequence of vertex sets; region IDs are the 0-based
\* positions of the seed lists, and a vertex in two seed lists goes to the
\* lower position.  A seed outside the vertices to segment starts its
\* region if segment_seeds says so; the regions grow into these vertices
\* only.
segment_seeded(cand, seed_lists, min_region_size) ==
    LET start == [v \in V |->
                    IF /\ \E i \in 1..Len(seed_lists) : v \in seed_lists[i]
                       /\ segment_seeds = "anywhere" \/ v \in cand
                    THEN Min({i \in 1..Len(seed_lists) :
                                  v \in seed_lists[i]}) - 1
                    ELSE -1]
        grown == Array(GrowSeeds(cand, Array(start)))
    IN  Array(DropSmallRegions(grown, min_region_size))

(***************************************************************************)
(* fill_holes (section 4.3)                                                *)
(***************************************************************************)
\* The vertices outside the hole that touch it.
HoleBorder(hole) ==
    {w \in V \ hole : \E u \in hole : w \in neighbor_lists[u]}

\* Majority vote over the region IDs next to the hole; -1 when no neighbor
\* carries a region ID.  Equal votes go to the lowest region ID.
BorderingRegion(regions, hole) ==
    LET ids == {regions[w] : w \in HoleBorder(hole)} \ {-1}
        votes(r) == Cardinality({w \in HoleBorder(hole) : regions[w] = r})
    IN  IF ids = {} THEN -1
        ELSE Min({r \in ids : \A q \in ids : votes(r) >= votes(q)})

\* The component ID of the largest unassigned component (lowest ID on equal
\* counts), given the segmentation of the unassigned vertices.
LargestComponent(comps) ==
    LET ids == UniqueIDs(comps)
        size(c) == Cardinality(IndicesOf(comps, c))
    IN  Min({c \in ids : \A d \in ids : size(c) >= size(d)})

\* fill_holes(regions, neighbor_lists, values, exclude_range): every
\* unassigned component but the largest takes the ID of its bordering
\* region; a vertex whose value lies in exclude_range is never absorbed.
fill_holes(regions, values, lo, hi) ==
    LET comps == segment({v \in V : regions[v] = -1}, 1)
    IN  IF UniqueIDs(comps) = {} THEN regions
        ELSE LET bg == LargestComponent(comps)
             IN  [v \in V |->
                    IF comps[v] # -1 /\ comps[v] # bg
                       /\ ~(lo <= values[v] /\ values[v] <= hi)
                    THEN BorderingRegion(regions, IndicesOf(comps, comps[v]))
                    ELSE regions[v]]

(***************************************************************************)
(* State                                                                   *)
(***************************************************************************)
VARIABLES
    pc,               \* position of the running call
    error,            \* the exception that ended the call, or "none"
    npoints,          \* number of points of the mesh
    depths,           \* depth value of every vertex
    min_fold_size,    \* extract_folds argument
    tiny_depth,       \* extract_folds argument
    depth_threshold,  \* extract_folds local, a fraction
    bound,            \* names of the locals of the call assigned so far
    folds,            \* fold number of every vertex
    n_folds,          \* number of folds
    folds_segmented,  \* folds as left by the segmentation step
    folds_pruned,     \* folds as left by the removal of small folds
    folds_filled,     \* folds as left by fill_holes
    impl,             \* the sulcus identification routine that is running
    labels,           \* label of every vertex (-1 for unlabeled)
    pair_lists,       \* the protocol: one set of label pairs per sulcus
    min_boundary,     \* extract_sulci argument
    sulci,            \* sulcus number of every vertex
    todo,             \* fold numbers the loop has still to visit
    n_sulci,          \* number of sulci
    sulci_unfilled,   \* sulci as they were before the holes were filled
    bins_smooth,      \* the smoothed histogram of the depths, bin by bin
    cluster_size,     \* mesh vertices each tracked vertex stands for
    further_depths,   \* points per depth among the points not tracked
    pair_list_index,  \* DKTprotocol: pair lists the outer loop has entered
    pair_index,       \* DKTprotocol: pairs of the list the inner loop did
    left_pairs,       \* DKTprotocol: loop variable
    right_pairs,      \* DKTprotocol: loop variable
    left_sulcus_label_pair_lists,
    right_sulcus_label_pair_lists,
    unique_sulcus_label_pair_list,  \* DKTprotocol.unique_sulcus_label_pairs
    sulcus_label_pair_lists,
    min_size,         \* extract_subfolds argument
    depth_factor,     \* extract_subfolds argument, in hundredths
    depth_ratio,      \* extract_subfolds argument, in hundredths
    tolerance,        \* extract_subfolds argument, in hundredths
    subfold_ids,      \* extract_subfolds: subfolds, one number per vertex
    n_subfolds,       \* extract_subfolds: number of subfolds
    areas,            \* find_deep_vertices: surface area of every vertex
    fraction_folds,   \* find_deep_vertices argument, in tenths
    likelihoods,      \* find_segment_endpoints argument, in twentieths
    indices,          \* find_segment_endpoints argument: the fold
    step,             \* find_segment_endpoints argument
    threshold,        \* find_segment_endpoints local, a fraction
    prev_threshold,   \* find_segment_endpoints local, a fraction
    R,                \* find_segment_endpoints: vertices left to segment
    P,                \* find_segment_endpoints: the previous segment
    X,                \* find_segment_endpoints: excluded vertices
    E,                \* find_segment_endpoints: endpoints
    continue_loop,    \* find_segment_endpoints local
    stack             \* creep: the segments each open call has still to do

\* The names the body of class DKTprotocol assigns in its loop.
dkt == <<pair_list_index, pair_index, left_pairs, right_pairs,
         left_sulcus_label_pair_lists, right_sulcus_label_pair_lists,
         unique_sulcus_label_pair_list, sulcus_label_pair_lists>>

\* LABELS.py lines 585-587: the lists are empty before the loop.
InitDKT ==
    /\ pair_list_index = 0
    /\ pair_index = 0
    /\ left_pairs = <<>>
    /\ right_pairs = <<>>
    /\ left_sulcus_label_pair_lists = <<>>
    /\ right_sulcus_label_pair_lists = <<>>
    /\ unique_sulcus_label_pair_list = <<>>
    /\ sulcus_label_pair_lists = <<>>

\* The names of extract_subfolds, find_deep_vertices and
\* find_segment_endpoints.
subfold_vars == <<min_size, depth_factor, depth_ratio, tolerance, subfold_ids,
                 n_subfolds>>
deep_vars == <<areas, fraction_folds>>
endpoint_vars == <<likelihoods, indices, step, threshold, prev_threshold,
                  R, P, X, E, continue_loop, stack>>
other_routines == <<subfold_vars, deep_vars, endpoint_vars>>

\* extract_subfolds has not been called.
IdleSubfolds ==
    /\ min_size = 1
    /\ depth_factor = 0
    /\ depth_ratio = 0
    /\ tolerance = 0
    /\ subfold_ids = <<>>
    /\ n_subfolds = 0

\* find_deep_vertices has not been called.
IdleDeep ==
    /\ areas = <<>>
    /\ fraction_folds = 0

\* find_segment_endpoints has not been called.
IdleEndpoints ==
    /\ likelihoods = <<>>
    /\ indices = {}
    /\ step = 1
    /\ threshold = <<0, 1>>
    /\ prev_threshold = <<0, 1>>
    /\ R = {}
    /\ P = {}
    /\ X = {}
    /\ E = {}
    /\ continue_loop = FALSE
    /\ stack = <<>>

InitOtherRoutines == IdleSubfolds /\ IdleDeep /\ IdleEndpoints

\* Largest depth value of the depth arrays of extract_subfolds and
\* find_deep_vertices; depths are whole numbers of depth units.
MaxDepth == 2

DepthLevels == 0..MaxDepth

\* Depth of the deepest tracked vertices of the depth files of extract_folds.
FoldDepth == 6

\* The depths of the tracked vertices in these files.
FoldDepths == {0, 1, FoldDepth}

\* The values of the argument tiny_depth, in depth units.
TinyDepths == {0, 1}

\* Number of points at each of the depths where the further points of the
\* second depth file gather.
PeakSize == 1000

\* The depths of the further points of a mesh of n points whose points
\* outside the tracked vertices all have depth 0.
flat_file(n) == [x \in {0} |-> n - NV]

\* Depths at which the further points of the second depth file gather.
PeakDepths == {19, 20, 39, 40, 59, 60, 79, 80, 100}

\* The depths of the further points of a mesh of n points with PeakSize
\* points at each of the PeakDepths and the remaining points at depth 0.
peaked_file(n) ==
    [x \in {0} \cup PeakDepths |->
        IF x = 0 THEN n - NV - PeakSize * Cardinality(PeakDepths)
        ELSE PeakSize]

(***************************************************************************)
(* features/folds.py  extract_folds                                        *)
(***************************************************************************)
\* The mesh holds the NV tracked vertices and npoints - NV further points
\* that are in no face and have depth 0.
InitFolds ==
    /\ mesh \in Meshes
    /\ python \in Pythons
    /\ SegmentUnobserved
    /\ do_fill_holes = TRUE
    /\ pc = "start"
    /\ error = "none"
    /\ npoints \in {min_vertices - 1, min_vertices, min_vertices + 1}
    /\ depths \in [V -> FoldDepths]
    /\ min_fold_size \in 1..MaxMinFoldSize
    /\ tiny_depth \in TinyDepths
    /\ depth_threshold = <<0, 1>>
    /\ bound = {}
    /\ folds = AllMinusOne
    /\ n_folds = 0
    /\ folds_segmented = AllMinusOne
    /\ folds_pruned = AllMinusOne
    /\ folds_filled = AllMinusOne
    /\ impl = "extract_folds"
    /\ labels = AllMinusOne
    /\ pair_lists = <<>>
    /\ min_boundary = 1
    /\ sulci = AllMinusOne
    /\ todo = {}
    /\ n_sulci = 0
    /\ sulci_unfilled = AllMinusOne
    /\ bins_smooth = <<>>
    /\ InitDKT
    /\ InitOtherRoutines
    /\ cluster_size = 1
    /\ further_depths = flat_file(npoints)

inputs == <<npoints, depths, further_depths, min_fold_size, tiny_depth,
            cluster_size, mesh, python, segment_numbers, segment_seeds,
            do_fill_holes>>
sulci_vars == <<impl, labels, pair_lists, min_boundary, sulci, todo, n_sulci,
               sulci_unfilled>>
snapshots == <<folds_segmented, folds_pruned, folds_filled>>

\* The depth values of the points of the mesh.
depth_values(d, u) == {d[v] : v \in V} \cup {x \in DOMAIN u : u[x] > 0}

\* The number of points of depth x.
points_at(d, u, x) ==
    Cardinality({v \in V : d[v] = x}) + (IF x \in DOMAIN u THEN u[x] ELSE 0)

RECURSIVE points_in(_, _, _)
\* The number of points whose depth is one of the values xs.
points_in(d, u, xs) ==
    IF xs = {} THEN 0
    ELSE LET x == Min(xs)
         IN  points_at(d, u, x) + points_in(d, u, xs \ {x})

\* if npoints > min_vertices
EnoughVertices(n) == n > min_vertices

\* np.round(num / den) for whole numbers num >= 0 and den > 0: the nearest
\* whole number, the even one of the two when num / den is halfway.
np_round(num, den) ==
    LET q == num \div den
        r == num % den
    IN  IF 2 * r < den THEN q
        ELSE IF 2 * r > den THEN q + 1
        ELSE IF q % 2 = 0 THEN q ELSE q + 1

\* Line 132: nbins = np.round(npoints / 100.0)
nbins(n) == np_round(n, 100)

\* The smallest and the greatest depth of the mesh.
smallest_depth(d, u) == Min(depth_values(d, u))

greatest_depth(d, u) == Max(depth_values(d, u))

\* The 0-based bin of np.histogram(depths, bins=n) that counts depth x.  The
\* n bins have equal widths and span the depths from the smallest to the
\* greatest, the greatest depth lying in the last bin; when all depths are
\* equal they span from half a unit below to half a unit above.
bin_of(d, u, n, x) ==
    LET lo == smallest_depth(d, u)
        hi == greatest_depth(d, u)
    IN  IF lo = hi THEN n \div 2
        ELSE IF x = hi THEN n - 1
        ELSE ((x - lo) * n) \div (hi - lo)

\* Line 136: bins, bin_edges = np.histogram(depths, bins=nbins).  Entry
\* i + 1 of the sequence is the count of bin i.
histogram(d, u, n) ==
    [i \in 1..n |->
        points_in(d, u, {x \in depth_values(d, u) :
                             bin_of(d, u, n, x) = i - 1})]

\* The weights of gaussian_filter1d for sigma = 5, in units of 10^-8: the
\* values exp(-k^2 / (2 * 5^2)) for k = 0 .. 4 * 5, divided by their sum
\* over k = -20 .. 20.  Entry k + 1 is the weight at distance k.
gaussian_weights ==
    <<7979166, 7821168, 7365698, 6664759, 5794063, 4839609, 3883877,
      2994669, 2218506, 1579067, 1079863, 709520, 447909, 271670, 158315,
      88641, 47684, 24645, 12239, 5839, 2677>>

\* The weight at distance k, which is 0 beyond the reach of the kernel.
weight(k) ==
    IF k \in 0..(Len(gaussian_weights) - 1) THEN gaussian_weights[k + 1]
    ELSE 0

\* The weight with which bin j (0-based) of n bins enters the smoothed
\* value of bin i: mode 'reflect' continues the array beyond either end by
\* its mirror image (position -1 holds bin 0, position n holds bin n - 1).
kernel(i, j, n) ==
    weight(IF i >= j THEN i - j ELSE j - i) + weight(i + j + 1)
        + weight(2 * n - 1 - i - j)

RECURSIVE weighted_sum(_, _, _, _, _)
\* The sum over the bins js of count * part, where part is the whole
\* ten-thousands of the weight (high = TRUE) or the rest below them.
weighted_sum(bins, i, js, n, high) ==
    IF js = {} THEN 0
    ELSE LET j == Min(js)
             k == kernel(i, j, n)
         IN  bins[j + 1] * (IF high THEN k \div 10000 ELSE k % 10000)
                 + weighted_sum(bins, i, js \ {j}, n, high)

\* Line 144: bins_smooth = gaussian_filter1d(bins.tolist(), 5).  The input
\* is a list of integers and the output has the type of the input, so every
\* smoothed value is cut to a whole number.  The weighted sum is split in
\* two parts that each fit the integers of the model checker.
gaussian_filter1d(bins) ==
    LET n == Len(bins)
        occupied == {j \in 0..(n - 1) : bins[j + 1] # 0}
    IN  [i \in 1..n |->
            (weighted_sum(bins, i - 1, occupied, n, TRUE)
                 + weighted_sum(bins, i - 1, occupied, n, FALSE) \div 10000)
                \div 10000]

\* Lines 130-144: the histogram needs nbins, which only the first branch
\* assigns; the other branch calls sys.err, which module sys does not have.
ComputeHistogram ==
    /\ pc = "start"
    /\ IF EnoughVertices(npoints)
       THEN /\ pc' = "histogram"
            /\ bound' = bound \cup {"nbins"}
            /\ bins_smooth' =
                  gaussian_filter1d(histogram(depths, further_depths,
                                              nbins(npoints)))
            /\ error' = error
       ELSE /\ pc' = "failed"
            /\ error' = "AttributeError"
            /\ UNCHANGED <<bound, bins_smooth>>
    /\ UNCHANGED <<dkt, other_routines,
                   sulci_vars, inputs, snapshots, depth_threshold, folds,
                   n_folds>>

\* Line 145: window = [-1, 0, 1]
window == <<-1, 0, 1>>

\* bins_smooth[i] for a 1-based index i, and 0 outside the array, as
\* np.convolve pads it.
Padded(s, i) == IF i \in 1..Len(s) THEN s[i] ELSE 0

\* x / n for an entry x of an integer array, as a fraction: Python 2 floors
\* the quotient of two integers, Python 3 gives the true quotient.
divide(x, n, py) == IF py = 2 THEN <<x \div n, 1>> ELSE <<x, n>>

\* Line 146: np.convolve(bins_smooth, window, mode='same') / (len(window) -
\* 1) under Python py.  bins_smooth is an integer array (gaussian_filter1d
\* keeps the type of bins.tolist()); entry i of the convolution is
\* window[3] * s[i-1] + window[2] * s[i] + window[1] * s[i+1].
bin_slopes(s, py) ==
    [i \in 1..Len(s) |->
        divide(window[3] * Padded(s, i - 1) + window[2] * Padded(s, i)
                   + window[1] * Padded(s, i + 1),
               Len(window) - 1, py)]

\* Line 147: ibins0 = np.where(bin_slopes == 0)[0], as 0-based indices.
ibins0(s, py) ==
    {i - 1 : i \in {j \in 1..Len(s) : bin_slopes(s, py)[j][1] = 0}}

\* Line 148: "if ibins0.shape:" tests the shape tuple (n,) of a
\* one-dimensional array, which has one entry whatever n is.
HasShape(ibins) == TRUE

\* Line 136: bin_edges[i] of np.histogram(depths, bins=n), as a fraction.
bin_edges(d, u, n, i) ==
    LET lo == smallest_depth(d, u)
        hi == greatest_depth(d, u)
    IN  IF lo = hi
        THEN <<2 * n * lo - n + 2 * i, 2 * n>>
        ELSE <<n * lo + i * (hi - lo), n>>

\* x >= q for a whole number x and a fraction q.
AtLeast(x, q) == x * q[2] >= q[1]

\* The r-th smallest depth of the mesh.
kth_depth(d, u, r) ==
    Min({l \in depth_values(d, u) :
            points_in(d, u, {x \in depth_values(d, u) : x <= l}) >= r})

\* Line 151: np.median(depths), as a fraction of the depth unit: the middle
\* depth, or the mean of the two middle depths of an even number of points.
median(d, u, n) ==
    IF n % 2 = 1 THEN <<kth_depth(d, u, (n + 1) \div 2), 1>>
    ELSE <<kth_depth(d, u, n \div 2) + kth_depth(d, u, n \div 2 + 1), 2>>

\* Lines 148-151 for the zero-slope bins ibins: the threshold is the edge of
\* the first bin of zero slope; ibins0[0] raises IndexError when no bin has
\* zero slope; the median is the threshold when ibins0 has no shape.
threshold_or_error(ibins, d, u, n) ==
    IF HasShape(ibins)
    THEN IF ibins # {}
         THEN <<"threshold", bin_edges(d, u, nbins(n), Min(ibins))>>
         ELSE <<"IndexError", <<0, 1>> >>
    ELSE <<"threshold", median(d, u, n)>>

\* Lines 145-151: the threshold is read off the slopes of the smoothed
\* histogram.
SelectThreshold ==
    /\ pc = "histogram"
    /\ LET outcome == threshold_or_error(ibins0(bins_smooth, python), depths,
                                         further_depths, npoints)
       IN  IF outcome[1] = "threshold"
           THEN /\ depth_threshold' = outcome[2]
                /\ pc' = "threshold"
                /\ error' = error
           ELSE /\ pc' = "failed"
                /\ error' = outcome[1]
                /\ depth_threshold' = depth_threshold
    /\ UNCHANGED <<dkt, other_routines, bins_smooth,
                   sulci_vars, inputs, snapshots, bound, folds, n_folds>>

\* Variant: the comparison with the threshold inverted.
indices_deep_inverted(d, t) ==
    {v \in V : ~AtLeast(d[v], t) \/ d[v] * t[2] = t[1]}

\* indices_deep = [i for i,x in enumerate(depths) if x >= depth_threshold]
indices_deep(d, t) == {v \in V : AtLeast(d[v], t)}

\* Lines 156-169 and 206-207.
SegmentDeep ==
    /\ pc = "threshold"
    /\ IF indices_deep(depths, depth_threshold) # {}
       THEN /\ folds' = segment(indices_deep(depths, depth_threshold), 1)
            /\ bound' = bound \cup {"folds"}
            /\ pc' = "segmented"
       ELSE /\ pc' = "nodeep"
            /\ UNCHANGED <<folds, bound>>
    /\ folds_segmented' = folds'
    /\ UNCHANGED <<dkt, other_routines, bins_smooth,
                   sulci_vars, inputs, folds_pruned, folds_filled, error,
                   depth_threshold, n_folds>>

\* Variant: a fold of exactly min_fold_size vertices is removed too.
TooSmall_inclusive(size, m) == size <= m

\* if len(indices_fold) < min_fold_size
TooSmall(size, m) == size < m

\* Lines 174-180.
remove_small_folds(f, m) ==
    IF m > 1
    THEN [v \in V |->
            IF f[v] > -1 /\ TooSmall(Cardinality(IndicesOf(f, f[v])), m)
            THEN -1 ELSE f[v]]
    ELSE f

RemoveSmallFolds ==
    /\ pc = "segmented"
    /\ folds' = remove_small_folds(folds, min_fold_size)
    /\ folds_pruned' = folds'
    /\ pc' = "pruned"
    /\ UNCHANGED <<dkt, other_routines, bins_smooth,
                   sulci_vars, inputs, folds_segmented, folds_filled,
                   error, depth_threshold, bound, n_folds>>

\* Variant: an exclusion range that holds no value.
exclude_range_empty == <<1, 0>>

\* Line 190: exclude_range=[0, tiny_depth]
exclude_range == <<0, tiny_depth>>

\* Lines 187-190: folds = fill_holes(folds, neighbor_lists, values=depths,
\* exclude_range=[0, tiny_depth])
FillHoles ==
    /\ pc = "pruned"
    /\ folds' = fill_holes(folds, depths, exclude_range[1], exclude_range[2])
    /\ folds_filled' = folds'
    /\ pc' = "filled"
    /\ UNCHANGED <<dkt, other_routines, bins_smooth,
                   sulci_vars, inputs, folds_segmented, folds_pruned,
                   error, depth_threshold, bound, n_folds>>

\* fold_numbers = [int(x) for x in np.unique(folds) if x > -1]
fold_numbers(f) == {x \in {f[v] : v \in V} : x > -1}

\* Variant: the fold numbers are kept as they are.
renumber_folds_skipped(f) == f

\* Lines 195-200: fold n_fold, at position i_fold of the sorted fold
\* numbers, becomes fold i_fold.
renumber_folds(f) ==
    [v \in V |->
        IF f[v] > -1
        THEN Cardinality({x \in fold_numbers(f) : x < f[v]})
        ELSE -1]

RECURSIVE further_points(_, _)
\* The number of further points whose depth is one of the values xs.
further_points(u, xs) ==
    IF xs = {} THEN 0
    ELSE LET x == Min(xs)
         IN  u[x] + further_points(u, xs \ {x})

\* The folds among the npoints - NV further points of the mesh.  Each of
\* them is a component of its own: it is deep when its depth reaches the
\* threshold, segment numbers it after the folds of the tracked vertices,
\* and lines 174-180 keep it unless a single vertex is too small a fold.
untracked_folds ==
    IF ~(min_fold_size > 1 /\ TooSmall(1, min_fold_size))
    THEN further_points(further_depths,
                        {x \in DOMAIN further_depths :
                             AtLeast(x, depth_threshold)})
    ELSE 0

\* Lines 195-201: n_folds = i_fold + 1 reads the loop variable, which is
\* unbound when the loop body never ran.
Renumber ==
    /\ pc = "filled"
    /\ folds' = renumber_folds(folds)
    /\ IF Cardinality(fold_numbers(folds)) + untracked_folds > 0
       THEN /\ n_folds' =
                  (Cardinality(fold_numbers(folds)) + untracked_folds - 1) + 1
            /\ bound' = bound \cup {"i_fold", "n_folds"}
            /\ pc' = "renumbered"
            /\ error' = error
       ELSE /\ pc' = "failed"
            /\ error' = "UnboundLocalError"
            /\ UNCHANGED <<n_folds, bound>>
    /\ UNCHANGED <<dkt, other_routines, bins_smooth,
                   sulci_vars, inputs, snapshots, depth_threshold>>

\* Line 223: return folds.tolist(), n_folds, ... (save_file = False).
Return ==
    /\ pc \in {"renumbered", "nodeep"}
    /\ IF {"folds", "n_folds"} \subseteq bound
       THEN pc' = "returned" /\ error' = error
       ELSE pc' = "failed" /\ error' = "UnboundLocalError"
    /\ UNCHANGED <<dkt, other_routines, bins_smooth,
                   sulci_vars, inputs, snapshots, depth_threshold, bound,
                   folds, n_folds>>

vars == <<pc, error, npoints, depths, min_fold_size, tiny_depth,
          depth_threshold, bound, folds, n_folds, folds_segmented,
          folds_pruned, folds_filled, impl, labels, pair_lists,
          min_boundary, sulci, todo, n_sulci, sulci_unfilled, bins_smooth,
          cluster_size, further_depths, mesh, python, segment_numbers,
          segment_seeds, do_fill_holes, pair_list_index,
          pair_index, left_pairs, right_pairs, left_sulcus_label_pair_lists,
          right_sulcus_label_pair_lists, unique_sulcus_label_pair_list,
          sulcus_label_pair_lists, other_routines>>

NextFolds ==
    \/ ComputeHistogram
    \/ SelectThreshold
    \/ SegmentDeep
    \/ RemoveSmallFolds
    \/ FillHoles
    \/ Renumber
    \/ Return

SpecFolds == InitFolds /\ [][NextFolds]_vars

(***************************************************************************)
(* Properties of extract_folds (features/folds.py)                         *)
(***************************************************************************)
\* The call has ended, one way or the other.
Ended == pc \in {"returned", "failed"}

\* The removal of small folds has run.
PruneDone ==
    \/ pc \in {"pruned", "filled", "renumbered", "returned"}
    \/ pc = "failed" /\ "folds" \in bound

Deep == {v \in V : AtLeast(depths[v], depth_threshold)}

\* The untracked folds carry the untracked_folds numbers that follow the
\* numbers of the tracked folds, from this number on.
first_untracked_fold == Cardinality(UniqueIDs(folds))

\* C3: in the fold array extract_folds returns, the non-negative values are
\* exactly 0 .. n_folds-1, every other entry is -1, and n_folds is the
\* number of distinct non-negative values: the values of the tracked
\* vertices are 0 .. first_untracked_fold - 1 and the untracked folds take
\* the numbers from there to n_folds - 1.
C3_DenseFoldIDs ==
    pc = "returned" =>
        /\ \A v \in V : folds[v] \in -1..(n_folds - 1)
        /\ UniqueIDs(folds) = 0..(first_untracked_fold - 1)
        /\ n_folds = first_untracked_fold + untracked_folds

\* A call returned a fold whose number had to be changed to close a gap.
C3_Witness ==
    /\ pc = "returned"
    /\ n_folds >= 1
    /\ \E v \in V : folds_filled[v] > -1 /\ folds[v] # folds_filled[v]

\* Lines 136-156: the threshold is an edge of the histogram below the
\* greatest depth (the lowest edge when all depths are equal), so that
\* indices_deep is never empty and line 207 is not reached.
SomeVertexIsDeep ==
    /\ pc # "nodeep"
    /\ Ended => (AtLeast(0, depth_threshold) \/ Deep # {})

\* C5: when every component of deep vertices is smaller than min_fold_size,
\* extract_folds returns a fold array of -1 and n_folds = 0.
C5_AllPrunedReturnsNoFold ==
    (Ended /\ ~AtLeast(0, depth_threshold) /\ Deep # {}
        /\ \A v \in Deep : Cardinality(Component(Deep, v)) < min_fold_size) =>
        (pc = "returned" /\ folds = AllMinusOne /\ n_folds = 0)

\* C6: the removal of small folds resets every component of deep vertices
\* with fewer than min_fold_size vertices to -1 and keeps every component
\* with at least min_fold_size vertices as a fold of its own.
C6_PruneBySize ==
    PruneDone =>
        \A v \in Deep :
            LET c == Component(Deep, v)
            IN  IF Cardinality(c) < min_fold_size
                THEN folds_pruned[v] = -1
                ELSE /\ folds_pruned[v] > -1
                     /\ \A w \in Deep :
                            (folds_pruned[w] = folds_pruned[v]) <=> (w \in c)

\* A component of exactly min_fold_size vertices was kept and a smaller one
\* was removed.
C6_Witness ==
    /\ pc = "pruned"
    /\ min_fold_size >= 2
    /\ \E v \in Deep : /\ Cardinality(Component(Deep, v)) = min_fold_size
                       /\ folds_pruned[v] > -1
    /\ \E v \in Deep : /\ Cardinality(Component(Deep, v)) < min_fold_size
                       /\ folds_pruned[v] = -1

\* The vertices fill_holes gave a fold number.
AddedByHoleFilling == {v \in V : folds_pruned[v] = -1 /\ folds_filled[v] > -1}

\* C7: every vertex of a returned fold has depth >= the threshold or was
\* added by hole filling, and every returned fold has a vertex of depth >=
\* the threshold.
C7_FoldVerticesDeepOrFilled ==
    pc = "returned" =>
        /\ \A v \in V :
              folds[v] # -1 =>
                  (v \in Deep \/ v \in AddedByHoleFilling)
        /\ \A k \in {folds[v] : v \in V} \ {-1} :
              \E v \in Deep : folds[v] = k

\* A returned fold holds a vertex below the threshold, added by hole filling.
C7_Witness ==
    /\ pc = "returned"
    /\ \E v \in AddedByHoleFilling :
          folds[v] # -1 /\ v \notin Deep

\* C10: a mesh with fewer vertices than the minimum ends the call before any
\* segmentation, and a mesh with at least the minimum is accepted.
C10_MinimumVertexCount ==
    /\ npoints < min_vertices => pc \in {"start", "failed"}
    /\ npoints >= min_vertices => ~(pc = "failed" /\ error = "AttributeError")

(***************************************************************************)
(* extract_borders / detect_boundaries (section 4.5)                       *)
(***************************************************************************)
\* np.sort(pair).tolist()
SortPair(p) == IF p[1] <= p[2] THEN p ELSE <<p[2], p[1]>>

\* hash() of a small integer, and its slot in a set's table of 8 entries.
PyHash(x) == IF x = -1 THEN -2 ELSE x
Slot(x) == PyHash(x) % 8

RECURSIVE Perturb(_, _)
\* The low three bits of perturb after k shifts by PERTURB_SHIFT = 5, perturb
\* starting as the hash taken as an unsigned 64-bit number (-2 is 2^64 - 2,
\* whose bits 5 to 63 are all ones).
Perturb(h, k) ==
    IF h < 0 THEN (IF k = 0 THEN h % 8 ELSE IF k <= 12 THEN 7 ELSE 0)
    ELSE IF k = 0 THEN h % 8
    ELSE Perturb(h \div 32, k - 1)

RECURSIVE Probe(_, _, _, _)
\* The slot a key of hash h takes when slot taken is in use and slot i was
\* the k-th one tried: the next slot is 5 * i + 1 + perturb, where Python 3
\* (setobject.c, set_add_entry) shifts perturb before it adds it and Python
\* 2 (set_lookkey) after.
Probe(h, i, k, taken) ==
    LET perturb == Perturb(h, IF python = 2 THEN k - 1 ELSE k)
        j == (5 * i + 1 + perturb) % 8
    IN  IF j # taken THEN j ELSE Probe(h, j, k + 1, taken)

\* The slot of the second key of a set of two.
SecondSlot(first, second) ==
    IF Slot(second) # Slot(first) THEN Slot(second)
    ELSE Probe(PyHash(second), Slot(second), 1, Slot(first))

\* list(set(pair)): the two labels in the order of their table slots, the
\* second label moving on to another slot when the first has taken its own.
ListSet(p) ==
    IF p[1] = p[2] THEN <<p[1]>>
    ELSE IF SecondSlot(p[1], p[2]) < Slot(p[1]) THEN <<p[2], p[1]>>
    ELSE p

\* The boundary entries of a vertex subset: one entry <<v, w>> for every
\* vertex v of the subset and every neighbor w with another label, neither
\* label being ignored.  indices_fold_pairs holds the v of the entries and
\* fold_pairs their label pairs, in the same order.
detect_boundaries(subset, lab, ignore) ==
    {e \in subset \X V :
        /\ e[2] \in neighbor_lists[e[1]]
        /\ lab[e[2]] # lab[e[1]]
        /\ lab[e[1]] \notin ignore
        /\ lab[e[2]] \notin ignore}

\* fold_pairs[i] of the entry e.
RawPair(lab, e) == <<lab[e[1]], lab[e[2]]>>

PairLess(p, q) == p[1] < q[1] \/ (p[1] = q[1] /\ p[2] < q[2])

RECURSIVE SortedPairSeq(_)
\* A set of label pairs as a list in increasing order.
SortedPairSeq(S) ==
    IF S = {} THEN <<>>
    ELSE LET m == CHOOSE p \in S : \A q \in S \ {p} : PairLess(p, q)
         IN  <<m>> \o SortedPairSeq(S \ {m})

\* unique_fold_pairs: the sorted label pairs observed, without repeats.
unique_pairs_of(lab, borders) ==
    SortedPairSeq({SortPair(RawPair(lab, e)) : e \in borders})

\* The elements of a list.
Range(seq) == {seq[i] : i \in 1..Len(seq)}

RECURSIVE Flatten(_)
\* [x for lst in seq for x in lst]
Flatten(seq) ==
    IF seq = <<>> THEN <<>> ELSE Head(seq) \o Flatten(Tail(seq))

(***************************************************************************)
(* propagate                                                               *)
(***************************************************************************)
\* sulci.py 311-321: propagate(points, faces, label_array, seeds, sulci,
\* ...) spreads the seed numbers "from seeds to vertices with label", the
\* vertices of label_array (here region).  The routine itself is not among
\* the sources, so its result is left open: a vertex outside the region
\* has -1, a vertex of the region has -1 or one of the numbers of the seeds
\* array, whichever the outcome names.  The outcome may depend on
\* everything handed to the routine, the sulci array included.
propagate(region, seeds, outcome) ==
    LET seed_numbers == {seeds[u] : u \in V} \ {-1}
    IN  Array([v \in V |->
                  IF v \in region /\ outcome[v] \in seed_numbers
                  THEN outcome[v] ELSE -1])

(***************************************************************************)
(* Protocol                                                                *)
(***************************************************************************)
\* All label pairs of the protocol.
AllPairs(pl) == UNION {pl[k] : k \in 1..Len(pl)}

\* Lines 408-410: label_lists, the labels within each sulcus.
label_list(pl, k) == UNION {{p[1], p[2]} : p \in pl[k]}

\* Lines 413-417: protocol_pairs, every pair stored as list(set(pair)).
protocol_pairs(pl) == {ListSet(p) : p \in AllPairs(pl)}

\* LABELS.py line 592.
left_pair(pair) == <<1000 + pair[1], 1000 + pair[2]>>

\* LABELS.py line 593.
right_pair(pair) == <<2000 + pair[1], 2000 + pair[2]>>

\* LABELS.py 591-593: the pair of the protocol (labels under 1000) from
\* which a pair of a hemisphere's lists was made, or that pair itself.
protocol_pair(pair) == <<pair[1] % 1000, pair[2] % 1000>>

\* LABELS.py 587-600: unique_sulcus_label_pairs is one list for both
\* hemispheres, the left and the right pair of every pair of the protocol;
\* pl holds the pair lists of the hemisphere at hand.
unique_sulcus_label_pairs(pl) ==
    UNION {{left_pair(protocol_pair(pair)), right_pair(protocol_pair(pair))} :
              pair \in AllPairs(pl)}

RECURSIVE IDsFrom_one_based(_, _, _)
\* Variant: the label pair lists counted from 1.
IDsFrom_one_based(pair, pl, k) ==
    IF k > Len(pl) THEN <<>>
    ELSE (IF SortPair(pair) \in pl[k] THEN <<k>> ELSE <<>>)
             \o IDsFrom_one_based(pair, pl, k + 1)

RECURSIVE IDsFrom(_, _, _)
\* [i for i,x in enumerate(label_pair_lists) if np.sort(pair).tolist() in x]
IDsFrom(pair, pl, k) ==
    IF k > Len(pl) THEN <<>>
    ELSE (IF SortPair(pair) \in pl[k] THEN <<k - 1>> ELSE <<>>)
             \o IDsFrom(pair, pl, k + 1)

RECURSIVE IDsOfPairs(_, _)
\* The list built by extending it with the IDs of every pair in turn.
IDsOfPairs(pairs, pl) ==
    IF pairs = <<>> THEN <<>>
    ELSE IDsFrom(Head(pairs), pl, 1) \o IDsOfPairs(Tail(pairs), pl)

(***************************************************************************)
(* extract/extract_folds.py  identify_sulci_from_folds                     *)
(***************************************************************************)
\* The def statement of the routine (lines 238-239) lacks the comma between
\* label_pair_lists and sulcus_names; the body is modelled as it is written.
\* extract_folds.py:567  min_region_size=50
subfold_min_region_size == 50

\* Line 429: unique_fold_labels = [int(x) for x in np.unique(fold_labels)]
unique_fold_labels_old(lab, fold) == {lab[v] : v \in fold}

\* Lines 358-396: the indices of the label lists that hold all of labs.
superset_indices(labs, pl) ==
    {k - 1 : k \in {j \in 1..Len(pl) : labs \subseteq label_list(pl, j)}}

\* Variant: sulci[:] = index
AssignFold_all(s, fold, index) == [v \in V |-> index]

\* sulci[fold] = index
AssignFold(s, fold, index) == [v \in V |-> IF v \in fold THEN index ELSE s[v]]

\* Lines 519-520: labels_in_pairs, the labels of all the fold's protocol
\* pairs, with repetitions.
labels_in_pairs(fpp) == Flatten(fpp)

\* Variant: one occurrence or more.
in_one_pair_only_weak(fpp, pair) ==
    Len(SelectSeq(labels_in_pairs(fpp), LAMBDA x : x \in Range(pair))) >= 2

\* Line 521: len([x for x in labels_in_pairs if x in pair]) == 2
in_one_pair_only(fpp, pair) ==
    Len(SelectSeq(labels_in_pairs(fpp), LAMBDA x : x \in Range(pair))) = 2

\* Lines 514, 522: unique_pairs, in the order of fold_pairs_in_protocol.
unique_pairs(fpp) == SelectSeq(fpp, LAMBDA q : in_one_pair_only(fpp, q))

\* Lines 516, 527: remainder_pairs, in the same order.
remainder_pairs(fpp) == SelectSeq(fpp, LAMBDA q : ~in_one_pair_only(fpp, q))

\* Lines 523-525.
IDs_unique_pairs(fpp, pl) == IDsOfPairs(unique_pairs(fpp), pl)

\* Variant: the sulcus of the first remainder pair for every remainder pair.
IDs_remainder_pairs_first(fpp, pl) ==
    [i \in 1..Len(IDsOfPairs(remainder_pairs(fpp), pl)) |->
        IDsOfPairs(remainder_pairs(fpp), pl)[1]]

\* Lines 528-530.
IDs_remainder_pairs(fpp, pl) == IDsOfPairs(remainder_pairs(fpp), pl)

\* Variant: the first unique pair for every label of a unique pair.
index_first(pairs, label) ==
    IF \E i \in 1..Len(pairs) : label \in Range(pairs[i]) THEN {1} ELSE {}

\* Lines 546-547: index, the positions in unique_pairs (here pairs) of the
\* pairs that hold the label of the vertex.
index(pairs, label) == {i \in 1..Len(pairs) : label \in Range(pairs[i])}

\* Lines 545-553: unassigned, given unique_pairs (here pairs).
unassigned(fold, lab, pairs) ==
    IF pairs # <<>> THEN {v \in fold : index(pairs, lab[v]) = {}} ELSE fold

\* Lines 559-562: seed_lists, one list of boundary vertices per remainder
\* pair (here pairs).
seed_lists(lab, borders, pairs) ==
    ArrayUpTo([j \in 1..Len(pairs) |->
                  {e[1] : e \in {b \in borders :
                      ListSet(RawPair(lab, b)) = ListSet(pairs[j])}}],
              Len(pairs))

\* A tracked vertex stands for itself and cluster_size - 1 further vertices
\* of its label and fold, adjacent to it and to one another only: they are
\* on no label boundary and a segmentation puts them in the region of the
\* tracked vertex.  A region of c tracked vertices has c * cluster_size
\* vertices, so it has min_region_size vertices or more iff c is at least
\* the number below.
tracked_min_region_size(min_region_size) ==
    (min_region_size + cluster_size - 1) \div cluster_size

\* Lines 566-567: subfolds.
subfolds(vertices, lists) ==
    segment_seeded(vertices, lists,
                   tracked_min_region_size(subfold_min_region_size))

\* A pass of the loop over the folds that went through, with the array it
\* leaves.
Passed(s) == [error |-> "none", sulci |-> s]

\* Lines 508-574: the fold is ambiguous.  The vertices with a label of a
\* unique pair get the sulcus of that pair (lines 544-549); then every
\* vertex of a subfold gets the sulcus of the remainder pair that seeded
\* the subfold (lines 571-574).  Line 574 uses the number of the subfold,
\* an element of np.unique(subfolds).tolist(), as an index of the list
\* IDs_remainder_pairs: a floating point number is no index, and the first
\* subfold raises TypeError before anything is written for it.
special_case(s, fold, lab, pl, borders, fpp) ==
    LET unique == unique_pairs(fpp)
        remainder == remainder_pairs(fpp)
        IDs_unique == IDs_unique_pairs(fpp, pl)
        IDs_remainder == IDs_remainder_pairs(fpp, pl)
        s1 == Array([v \in V |->
                 IF unique # <<>> /\ v \in fold /\ index(unique, lab[v]) # {}
                 THEN IDs_unique[Min(index(unique, lab[v]))]
                 ELSE s[v]])
        left == unassigned(fold, lab, unique)
        sub == subfolds(left, seed_lists(lab, borders, remainder))
    IN  IF left # {} /\ remainder # <<>>
        THEN IF segment_numbers = "float" /\ \E v \in V : sub[v] > -1
             THEN [error |-> "TypeError", sulci |-> s1]
             ELSE Passed(Array([v \in V |->
                      IF sub[v] > -1 THEN IDs_remainder[sub[v] + 1]
                      ELSE s1[v]]))
        ELSE Passed(s1)

\* Variant: the test for a fold without a sulcus label pair left out.
NoSulcusLabelPair_never(fpp) == FALSE

\* Line 474: if not len(fold_pairs_in_protocol); sulci.py line 156.
NoSulcusLabelPair(fpp) == fpp = <<>>

\* Lines 423-574: one pass of the loop over the folds, for fold n.
identify_fold(s, f, lab, pl, n) ==
    LET fold == IndicesOf(f, n)
        ufl == unique_fold_labels_old(lab, fold)
        matching == {k \in 1..Len(pl) : label_list(pl, k) = ufl}
        borders == detect_boundaries(fold, lab, {})
        fpp == SelectSeq(unique_pairs_of(lab, borders),
                      LAMBDA x : x \in protocol_pairs(pl))
        sup == superset_indices(ufl, pl)
    IN  IF Cardinality(ufl) = 0 THEN Passed(s)
        ELSE IF Cardinality(ufl) = 1 THEN Passed(s)
        ELSE IF matching # {}
        THEN Passed(AssignFold(s, fold, Min(matching) - 1))
        ELSE IF NoSulcusLabelPair(fpp) THEN Passed(s)
        ELSE IF Cardinality(sup) = 1
        THEN Passed(AssignFold(s, fold, Min(sup)))
        ELSE special_case(s, fold, lab, pl, borders, fpp)

(***************************************************************************)
(* features/sulci.py  extract_sulci                                        *)
(***************************************************************************)
\* Lines 121-122: unique_fold_labels, the labels of the fold other than -1.
unique_fold_labels(lab, fold) == {lab[v] : v \in fold} \ {-1}

\* Line 127: if len(unique_fold_labels) < 2
FewerThanTwoLabels(labs) == Cardinality(labs) < 2

\* An integer label compared with a label pair (a list): never equal.
LabelEqualsPair(x, pair) == FALSE

\* Lines 213-215: the fold vertices whose label x satisfies
\* "x in dkt.unique_sulcus_label_pairs", a list of pairs.
indices_unique_labels(fold, lab, pl) ==
    {v \in fold :
        \E pair \in unique_sulcus_label_pairs(pl) :
            LabelEqualsPair(lab[v], pair)}

\* Lines 198-204: ID = i for the first pair list holding the pair (i counted
\* from 0), None (here -1) when there is none.
first_ID(pair, pl) ==
    IF \E k \in 1..Len(pl) : pair \in pl[k]
    THEN Min({k \in 1..Len(pl) : pair \in pl[k]}) - 1
    ELSE -1

\* Line 205: "if ID:" is false for None and for 0.
Truthy(ID) == ID # -1 /\ ID # 0

RECURSIVE assign_unique_pairs(_, _, _, _, _, _, _, _)
\* Lines 190-225: the loop over the fold's protocol pairs, from pair i on.
assign_unique_pairs(s, fold, lab, pl, borders, fpp, unique_labels, i) ==
    IF i > Len(fpp) THEN s
    ELSE LET pair == fpp[i]
             n_unique == Cardinality({j \in 1..2 : pair[j] \in unique_labels})
             ID == first_ID(pair, pl)
             indices_pair == {e[1] : e \in {b \in borders :
                                               RawPair(lab, b) = pair}}
             sulci2 == segment_seeded(indices_unique_labels(fold, lab, pl),
                                      <<indices_pair>>, 1)
             s1 == IF n_unique # 0 /\ Truthy(ID)
                   THEN [v \in V |-> IF sulci2[v] # -1 THEN ID ELSE s[v]]
                   ELSE s
         IN  assign_unique_pairs(s1, fold, lab, pl, borders, fpp,
                                 unique_labels, i + 1)

\* Variant: the boundary segments are not filtered by their size.
long_segments_all(indices_pair, mb) == indices_pair

\* Lines 267-295: with min_boundary > 1 only the boundary vertices of
\* connected boundary segments of at least min_boundary vertices are kept.
long_segments(indices_pair, mb) ==
    IF mb > 1
    THEN LET seeds2 == segment(indices_pair, 1)
         IN  {v \in indices_pair :
                 Cardinality(IndicesOf(seeds2, seeds2[v])) >= mb}
    ELSE indices_pair

\* Lines 254-298: the seeds for one label.  A vertex seeded for several
\* sulci keeps the last ID written, the largest.
seeds_for(label, lab, pl, mb, borders) ==
    LET seeded ==   \* per pair list, the vertices seeded with its ID
            ArrayUpTo([k \in 1..Len(pl) |->
                UNION {long_segments(
                           {e[1] : e \in {b \in borders :
                                SortPair(RawPair(lab, b)) = label_pair}}, mb) :
                       label_pair \in {q \in pl[k] :
                                          label = q[1] \/ label = q[2]}}],
                Len(pl))
        IDs(v) == {ID \in 0..(Len(pl) - 1) : v \in seeded[ID + 1]}
    IN  Array([v \in V |-> IF IDs(v) # {} THEN Max(IDs(v)) ELSE -1])

RECURSIVE propagate_labels(_, _, _, _, _, _, _, _)
\* Lines 246-321: the loop over the labels shared by several pairs, in
\* increasing order.  No vertex has two labels, so one outcome per vertex
\* leaves the results of the calls of propagate independent of one another.
propagate_labels(s, fold, lab, pl, mb, borders, nonunique_labels, outcome) ==
    IF nonunique_labels = {} THEN s
    ELSE LET label == Min(nonunique_labels)
             seeds == seeds_for(label, lab, pl, mb, borders)
             indices_label == {v \in fold : lab[v] = label}
             sulci2 == propagate(indices_label, seeds, outcome)
             s1 == IF indices_label # {}
                   THEN Array([v \in V |-> IF sulci2[v] # -1 THEN sulci2[v]
                                                             ELSE s[v]])
                   ELSE s
         IN  propagate_labels(s1, fold, lab, pl, mb, borders,
                              nonunique_labels \ {label}, outcome)

\* Lines 115-321: one pass of the loop over the folds, for fold n.
extract_fold(s, f, lab, pl, mb, n, outcome) ==
    LET fold == IndicesOf(f, n)
        ufl == unique_fold_labels(lab, fold)
        borders == detect_boundaries(fold, lab, {})
        fpp == SelectSeq(unique_pairs_of(lab, borders),
                      LAMBDA x : x \in unique_sulcus_label_pairs(pl))
        occurrences(l) ==
            Len(SelectSeq(labels_in_pairs(fpp), LAMBDA x : x = l))
        unique_labels ==
            {l \in Range(labels_in_pairs(fpp)) : occurrences(l) = 1}
        nonunique_labels ==
            {l \in Range(labels_in_pairs(fpp)) : occurrences(l) # 1}
        s1 == IF unique_labels # {}
              THEN assign_unique_pairs(s, fold, lab, pl, borders, fpp,
                                       unique_labels, 1)
              ELSE s
    IN  IF FewerThanTwoLabels(ufl) THEN s
        ELSE IF NoSulcusLabelPair(fpp) THEN s
        ELSE propagate_labels(s1, fold, lab, pl, mb, borders,
                              nonunique_labels, outcome)

(***************************************************************************)
(* Sulcus identification as a state machine                                *)
(***************************************************************************)
\* The labels of the model: -1 for unlabeled.
Labels == {-1, 1, 2, 3}

\* The protocols of the model; no two sulci of a protocol share a pair.
Protocols ==
    { << {<<1, 2>>} >>,
      << {<<1, 2>>}, {<<2, 3>>} >>,
      << {<<1, 3>>}, {<<1, 2>>, <<2, 3>>} >> }

\* The fold arrays of the model: one fold over the whole mesh, and two
\* folds {1, 2} and {4, ..., NV} kept apart by the non-fold vertex 3.
FoldArrays ==
    { [v \in V |-> 0],
      [v \in V |-> IF v < 3 THEN 0 ELSE IF v = 3 THEN -1 ELSE 1] }

\* sulci.py 90-97: extract_sulci takes its pair lists from DKTprotocol,
\* with hemi = 'lh' the left lists, whose labels are those of the protocol
\* plus 1000 (LABELS.py 592); identify_sulci_from_folds is handed its pair
\* lists.  The labels and protocols above stand for those of LABELS.py.
HemisphereLabels(routine, label_set) ==
    IF routine = "extract_sulci"
    THEN {(IF l = -1 THEN -1 ELSE 1000 + l) : l \in label_set}
    ELSE label_set

HemisphereProtocols(routine, protocols) ==
    IF routine = "extract_sulci"
    THEN {[k \in 1..Len(pl) |-> {left_pair(pair) : pair \in pl[k]}] :
             pl \in protocols}
    ELSE protocols

\* sulci.py line 80 imports DKTprotocol from LABELS.py, whose class body
\* adds a range to a list (line 219): a list under Python 2, a TypeError
\* under Python 3, where extract_sulci therefore never starts.
\* identify_sulci_from_folds imports nothing of the kind.
ImportingPythons(routine) ==
    IF routine = "extract_sulci" THEN {2} ELSE Pythons

\* On a mesh of NV vertices the only seeded call of identify_sulci_from_folds
\* (lines 566-567, min_region_size = 50) returns -1 everywhere whichever
\* seeds are labelled, so that line 574 is not reached and the kind of the
\* numbers is not observed either; the seeded call of extract_sulci (line
\* 218, min_region_size = 1) depends on the seeds that are labelled.
ObservedSeedPolicies(routine) ==
    IF routine = "extract_sulci" THEN SeedPolicies ELSE {"anywhere"}

\* The routines before the loop over the folds.
InitSulci ==
    /\ mesh = "chain"
    /\ impl \in {"identify_sulci_from_folds", "extract_sulci"}
    /\ python \in ImportingPythons(impl)
    /\ segment_numbers = "int"
    /\ segment_seeds \in ObservedSeedPolicies(impl)
    /\ do_fill_holes = TRUE
    /\ pc = "loop"
    /\ error = "none"
    /\ folds \in FoldArrays
    /\ labels \in [V -> HemisphereLabels(impl, Labels)]
    /\ pair_lists \in HemisphereProtocols(impl, Protocols)
    /\ min_boundary \in (IF impl = "extract_sulci" THEN 1..2 ELSE {1})
    /\ sulci = AllMinusOne
    /\ todo = UniqueIDs(folds)
    /\ n_sulci = 0
    /\ sulci_unfilled = AllMinusOne
    /\ bins_smooth = <<>>
    /\ InitDKT
    /\ InitOtherRoutines
    /\ cluster_size = 1
    /\ further_depths = <<>>
    /\ npoints = NV
    /\ depths = AllMinusOne
    /\ min_fold_size = 1
    /\ tiny_depth = 0
    /\ depth_threshold = <<0, 1>>
    /\ bound = {}
    /\ n_folds = Cardinality(UniqueIDs(folds))
    /\ folds_segmented = AllMinusOne
    /\ folds_pruned = AllMinusOne
    /\ folds_filled = AllMinusOne

\* Inputs with four labels, none of them -1, and protocols over them: one
\* sulcus whose two pairs share no label, and two sulci of one pair each.
WideLabels == {1, 2, 3, 4}

WideProtocols ==
    { << {<<1, 3>>, <<2, 4>>} >>,
      << {<<1, 2>>}, {<<3, 4>>} >> }

\* The fold arrays of these inputs: those above, and one fold made of all
\* vertices but vertex 3, the only way four labels can lie on a fold of this
\* mesh without each being next to all the others.  (The routines take any
\* fold array; with one more vertex the chain holds such folds in one piece.)
WideFoldArrays == FoldArrays \cup {[v \in V |-> IF v = 3 THEN -1 ELSE 0]}

InitSulciWide ==
    /\ mesh = "chain"
    /\ impl \in {"identify_sulci_from_folds", "extract_sulci"}
    /\ python \in ImportingPythons(impl)
    /\ segment_numbers = "int"
    /\ segment_seeds \in ObservedSeedPolicies(impl)
    /\ do_fill_holes = TRUE
    /\ pc = "loop"
    /\ error = "none"
    /\ folds \in WideFoldArrays
    /\ labels \in [V -> HemisphereLabels(impl, WideLabels)]
    /\ pair_lists \in HemisphereProtocols(impl, WideProtocols)
    /\ min_boundary = 1
    /\ sulci = AllMinusOne
    /\ todo = UniqueIDs(folds)
    /\ n_sulci = 0
    /\ sulci_unfilled = AllMinusOne
    /\ bins_smooth = <<>>
    /\ InitDKT
    /\ InitOtherRoutines
    /\ cluster_size = 1
    /\ further_depths = <<>>
    /\ npoints = NV
    /\ depths = AllMinusOne
    /\ min_fold_size = 1
    /\ tiny_depth = 0
    /\ depth_threshold = <<0, 1>>
    /\ bound = {}
    /\ n_folds = Cardinality(UniqueIDs(folds))
    /\ folds_segmented = AllMinusOne
    /\ folds_pruned = AllMinusOne
    /\ folds_filled = AllMinusOne

folds_vars == <<npoints, depths, min_fold_size, tiny_depth, depth_threshold,
                bound, folds, n_folds, folds_segmented, folds_pruned,
                folds_filled, bins_smooth, cluster_size, further_depths,
                mesh, python, segment_numbers, segment_seeds,
                do_fill_holes>>

\* extract_folds.py 422-574: the next fold of the loop, in increasing order
\* of fold number.  A pass that raises ends the call in its fold.
IdentifySulciFold ==
    /\ impl = "identify_sulci_from_folds"
    /\ pc = "loop"
    /\ todo # {}
    /\ LET pass == identify_fold(sulci, folds, labels, pair_lists, Min(todo))
       IN  /\ sulci' = pass.sulci
           /\ error' = pass.error
           /\ IF pass.error = "none"
              THEN pc' = pc /\ todo' = todo \ {Min(todo)}
              ELSE pc' = "failed" /\ todo' = todo
    /\ UNCHANGED <<dkt, other_routines, folds_vars, impl, labels,
                   pair_lists, min_boundary, n_sulci, sulci_unfilled>>

\* extract_folds.py 576: return sulci
IdentifySulciReturn ==
    /\ impl = "identify_sulci_from_folds"
    /\ pc = "loop"
    /\ todo = {}
    /\ pc' = "returned"
    /\ UNCHANGED <<dkt, other_routines,
                   folds_vars, error, impl, labels,
                   pair_lists,
                   min_boundary, sulci, todo, n_sulci, sulci_unfilled>>

\* What the calls of propagate may make of fold n: for every vertex whose
\* label is shared by several of the fold's protocol pairs, -1 or a number
\* of the seeds array built for that label; -1 for every other vertex.
PropagateOutcomes(f, lab, pl, mb, n) ==
    LET fold == IndicesOf(f, n)
        borders == detect_boundaries(fold, lab, {})
        fpp == SelectSeq(unique_pairs_of(lab, borders),
                      LAMBDA x : x \in unique_sulcus_label_pairs(pl))
        shared(l) == Len(SelectSeq(labels_in_pairs(fpp), LAMBDA x : x = l)) > 1
        numbers == Array([v \in V |->
                      IF v \in fold /\ shared(lab[v])
                      THEN LET seeds == seeds_for(lab[v], lab, pl, mb, borders)
                           IN  {seeds[u] : u \in V}
                      ELSE {}])
    IN  {outcome \in [V -> {-1} \cup (0..(Len(pl) - 1))] :
            \A v \in V : outcome[v] # -1 => outcome[v] \in numbers[v]}

\* sulci.py 111-321: the next fold of the loop, in increasing order of fold
\* number.
ExtractSulciFold ==
    /\ impl = "extract_sulci"
    /\ pc = "loop"
    /\ todo # {}
    /\ \E outcome \in PropagateOutcomes(folds, labels, pair_lists,
                                         min_boundary, Min(todo)) :
          sulci' = extract_fold(sulci, folds, labels, pair_lists,
                                min_boundary, Min(todo), outcome)
    /\ todo' = todo \ {Min(todo)}
    /\ UNCHANGED <<dkt, other_routines,
                   folds_vars, pc, error, impl, labels,
                   pair_lists,
                   min_boundary, n_sulci, sulci_unfilled>>

\* utils/io_vtk.py 309: rewrite_scalars(input_vtk, output_vtk, new_scalars,
\* filter_scalars=[]) takes at most four arguments; a call that hands over
\* more raises TypeError before any line of the routine runs.
rewrite_scalars(n_arguments) ==
    IF n_arguments > 4 THEN "TypeError" ELSE "none"

\* sulci.py 326-365: n_sulci is counted and the file of the sulci is
\* written by rewrite_scalars(labels_file, sulci_file, sulci, 'sulci',
\* sulci), a call with five arguments (line 359): it raises, and the return
\* of sulci, n_sulci and sulci_file (line 365) is not reached.
ExtractSulciReturn ==
    /\ impl = "extract_sulci"
    /\ pc = "loop"
    /\ todo = {}
    /\ n_sulci' = Cardinality(UniqueIDs(sulci))
    /\ error' = rewrite_scalars(5)
    /\ pc' = IF rewrite_scalars(5) = "none" THEN "returned" ELSE "failed"
    /\ UNCHANGED <<dkt, other_routines, folds_vars, impl, labels,
                   pair_lists, min_boundary, sulci, todo, sulci_unfilled>>

NextSulci ==
    \/ IdentifySulciFold
    \/ IdentifySulciReturn
    \/ ExtractSulciFold
    \/ ExtractSulciReturn

SpecSulci == InitSulci /\ [][NextSulci]_vars

(***************************************************************************)
(* Sulcus identification: properties                                       *)
(***************************************************************************)
\* The vertices of fold n.
FoldOf(n) == IndicesOf(folds, n)

\* The non-negative labels carried by the vertices of fold n.
NonNegLabels(n) == {labels[v] : v \in FoldOf(n)} \ {-1}

\* One of the two sulcus identification routines is running or has ended.
Identifying == impl \in {"identify_sulci_from_folds", "extract_sulci"}

\* The folds the loop over the folds has passed.
Passed_folds == UniqueIDs(folds) \ todo

\* Sulcus identification has run its loop over all folds and has its
\* array complete: identify_sulci_from_folds has returned it (line 576);
\* extract_sulci has counted its sulci (lines 326-328) and has ended in the
\* call of line 359, which stands between the array and the return.
Identified ==
    /\ impl \in {"identify_sulci_from_folds", "extract_sulci"}
    /\ todo = {}
    /\ pc \in {"returned", "failed"}

\* A pass of the loop over the folds has raised an error: the call ended
\* in a fold.
RaisedInLoop ==
    /\ impl \in {"identify_sulci_from_folds", "extract_sulci"}
    /\ pc = "failed"
    /\ todo # {}

\* The pass of the loop over fold n has raised an error.
RaisedIn(n) == RaisedInLoop /\ n = Min(todo)

\* C1: a fold whose vertices carry fewer than two distinct non-negative
\* labels has every vertex at -1 when sulcus identification has run its
\* loop, and the pass of the loop over such a fold raises no error.
C1_FewLabelsFoldUnassigned ==
    /\ \A n \in UniqueIDs(folds) :
          Cardinality(NonNegLabels(n)) < 2 => ~RaisedIn(n)
    /\ Identified =>
          \A n \in UniqueIDs(folds) :
              Cardinality(NonNegLabels(n)) < 2 =>
                  \A v \in FoldOf(n) : sulci[v] = -1

\* C2: a fold whose set of non-negative labels equals the label set of
\* sulcus definition k has k on every one of its vertices when sulcus
\* identification has run its loop and has its array complete.
C2_ExactMatchAssignsWholeFold ==
    Identified =>
        \A n \in UniqueIDs(folds) :
            \A k \in 1..Len(pair_lists) :
                NonNegLabels(n) = label_list(pair_lists, k) =>
                    \A v \in FoldOf(n) : sulci[v] = k - 1

\* The label pairs of the protocol met on the boundaries of fold n.
MatchingBoundaries(n) ==
    {SortPair(RawPair(labels, e)) :
        e \in detect_boundaries(FoldOf(n), labels, {})}
    \cap AllPairs(pair_lists)

\* The vertices of fold n labeled with a label of the pair and connected,
\* through such vertices, to a boundary vertex of the pair.
ReachableFromBoundary(n, pair) ==
    LET labeled == {v \in FoldOf(n) : labels[v] \in {pair[1], pair[2]}}
        on_boundary ==
            {e[1] : e \in {b \in detect_boundaries(FoldOf(n), labels, {}) :
                              SortPair(RawPair(labels, b)) = pair}}
    IN  Reach(labeled, on_boundary)

\* C8: when the mesh is a single fold and the pair (a, b) of sulcus
\* definition k is the only protocol pair met on its label boundaries, the
\* fold vertices labeled a or b that are reachable from that boundary have
\* sulcus k, and the fold vertices labeled -1 have -1.
C8_SingleBoundaryPair ==
    (Identified /\ UniqueIDs(folds) = {0} /\ FoldOf(0) = V) =>
        \A pair \in MatchingBoundaries(0) :
            MatchingBoundaries(0) = {pair} =>
                /\ \A v \in ReachableFromBoundary(0, pair) :
                      sulci[v] = first_ID(pair, pair_lists)
                /\ \A v \in V : labels[v] = -1 => sulci[v] = -1

(***************************************************************************)
(* features/folds.py  extract_folds: the depth threshold (lines 138-151)   *)
(***************************************************************************)
\* The depth files of the threshold selection: the further points all have
\* depth 0, or they gather at the PeakDepths.
DepthFiles(n) == {flat_file(n), peaked_file(n)}

\* extract_folds is called on a mesh of more than min_vertices points.
InitThreshold ==
    /\ mesh = "chain"
    /\ python \in Pythons
    /\ SegmentUnobserved
    /\ do_fill_holes = TRUE
    /\ pc = "start"
    /\ error = "none"
    /\ npoints \in {n \in {min_vertices - 1, min_vertices, min_vertices + 1} :
                       EnoughVertices(n)}
    /\ depths \in [V -> FoldDepths]
    /\ further_depths \in DepthFiles(npoints)
    /\ bins_smooth = <<>>
    /\ min_fold_size = 1
    /\ tiny_depth = 0
    /\ depth_threshold = <<0, 1>>
    /\ bound = {}
    /\ folds = AllMinusOne
    /\ n_folds = 0
    /\ folds_segmented = AllMinusOne
    /\ folds_pruned = AllMinusOne
    /\ folds_filled = AllMinusOne
    /\ impl = "extract_folds"
    /\ labels = AllMinusOne
    /\ pair_lists = <<>>
    /\ min_boundary = 1
    /\ sulci = AllMinusOne
    /\ todo = {}
    /\ n_sulci = 0
    /\ sulci_unfilled = AllMinusOne
    /\ InitDKT
    /\ InitOtherRoutines
    /\ cluster_size = 1

\* Lines 130-151 of extract_folds.
NextThreshold ==
    \/ ComputeHistogram
    \/ SelectThreshold

SpecThreshold == InitThreshold /\ [][NextThreshold]_vars

\* The threshold selection has ended.
ThresholdEnded == pc \in {"threshold", "failed"}

\* C11: the threshold is the bin edge of the first bin whose slope is zero,
\* and, when no bin has zero slope, the median depth, the call continuing
\* normally.
C11_ThresholdFirstZeroSlopeOrMedian ==
    (ThresholdEnded /\ bins_smooth # <<>>) =>
        /\ pc = "threshold"
        /\ error = "none"
        /\ depth_threshold =
              IF ibins0(bins_smooth, python) # {}
              THEN bin_edges(depths, further_depths, nbins(npoints),
                             Min(ibins0(bins_smooth, python)))
              ELSE median(depths, further_depths, npoints)

(***************************************************************************)
(* Sulcus identification: properties of the cases                          *)
(***************************************************************************)
\* The non-negative labels of fold n are the label set of a sulcus.
ExactMatch(n) ==
    \E k \in 1..Len(pair_lists) : NonNegLabels(n) = label_list(pair_lists, k)

\* Fold n has at least two labels and none of its label boundary pairs is
\* in the protocol.
NoBoundaryOverlap(n) ==
    /\ Cardinality(NonNegLabels(n)) >= 2
    /\ MatchingBoundaries(n) = {}

\* Every vertex of fold n is unassigned.
Unassigned(n) == \A v \in FoldOf(n) : sulci[v] = -1

\* C12 as stated: a fold with at least two labels, none of whose label
\* boundary pairs is in the protocol, has every vertex at -1 once the loop
\* of sulcus identification has passed it, and the pass of the loop over
\* such a fold raises no error.
C12_NoBoundaryOverlapUnassigned ==
    /\ \A n \in UniqueIDs(folds) : NoBoundaryOverlap(n) => ~RaisedIn(n)
    /\ Identifying =>
          \A n \in Passed_folds : NoBoundaryOverlap(n) => Unassigned(n)

\* C12, amended: a fold with at least two labels whose label set is not the
\* label set of a sulcus, and none of whose label boundary pairs is in the
\* protocol, has every vertex at -1 once the loop of sulcus identification
\* has passed it, up to the return of the call, and the pass of the loop
\* over such a fold raises no error.
C12_NoBoundaryOverlapNoExactMatch ==
    /\ \A n \in UniqueIDs(folds) :
          (NoBoundaryOverlap(n) /\ ~ExactMatch(n)) => ~RaisedIn(n)
    /\ Identifying =>
          \A n \in Passed_folds :
              (NoBoundaryOverlap(n) /\ ~ExactMatch(n)) => Unassigned(n)

\* identify_sulci_from_folds has returned and left such a fold unassigned.
C12_Witness ==
    /\ Identified
    /\ pc = "returned"
    /\ \E n \in UniqueIDs(folds) :
          NoBoundaryOverlap(n) /\ ~ExactMatch(n) /\ Unassigned(n)

(***************************************************************************)
(* Range of the sulcus numbers and n_sulci                                 *)
(***************************************************************************)
\* The sulcus numbers of the protocol: the positions in the list of label
\* pair lists, counted from 0.
SulcusIndices == 0..(Len(pair_lists) - 1)

dkt_pair_lists ==
    << << <<12, 28>> >>,
       << <<3, 28>>, <<27, 28>> >>,
       << <<3, 18>>, <<3, 19>>, <<3, 20>>, <<18, 27>>, <<19, 27>>,
          <<20, 27>> >>,
       << <<24, 28>>, <<3, 24>>, <<24, 27>>, <<18, 24>>, <<19, 24>>,
          <<20, 24>> >>,
       << <<22, 24>> >>,
       << <<22, 29>>, <<22, 31>> >>,
       << <<29, 31>>, <<8, 29>> >>,
       << <<8, 31>> >>,
       << <<30, 31>> >>,
       << <<8, 11>>, <<11, 29>> >>,
       << <<11, 15>>, <<9, 11>> >>,
       << <<15, 30>> >>,
       << <<9, 15>> >>,
       << <<12, 35>>, <<30, 35>>, <<34, 35>>, <<2, 35>>, <<10, 35>>,
          <<23, 35>>, <<26, 35>>, <<22, 35>>, <<24, 35>>, <<31, 35>> >>,
       << <<30, 34>> >>,
       << <<2, 14>>, <<10, 14>>, <<14, 23>>, <<14, 26>>, <<2, 28>>,
          <<10, 28>>, <<23, 28>>, <<26, 28>>, <<2, 17>>, <<10, 17>>,
          <<17, 23>>, <<17, 26>>, <<17, 25>> >>,
       << <<17, 28>> >>,
       << <<5, 25>> >>,
       << <<13, 25>>, <<2, 13>>, <<10, 13>>, <<13, 23>>, <<13, 26>> >>,
       << <<14, 28>> >>,
       << <<2, 4>>, <<4, 10>>, <<4, 23>>, <<4, 26>> >>,
       << <<3, 12>>, <<12, 27>>, <<12, 18>>, <<12, 19>>, <<12, 20>> >>,
       << <<12, 14>> >>,
       << <<7, 9>>, <<7, 11>> >>,
       << <<6, 7>>, <<7, 16>>, <<7, 13>> >> >>

\* Line 583.
relabel == TRUE

\* "if x not in lst: lst.append(x)"
append_if_new(lst, x) ==
    IF \E i \in 1..Len(lst) : lst[i] = x THEN lst ELSE Append(lst, x)

\* Variant: the pairs of the earlier sulci are kept in the list.
new_pairs_kept(previous) == previous

\* Lines 589-590: left_pairs = [] and right_pairs = [] for each pair list.
new_pairs(previous) == <<>>

\* The state before the loop of line 588; no other routine is running.
InitProtocol ==
    /\ mesh = "chain"
    /\ python = 2
    /\ SegmentUnobserved
    /\ do_fill_holes = TRUE
    /\ pc = "for pair_list"
    /\ error = "none"
    /\ npoints = min_vertices
    /\ depths = [v \in V |-> 0]
    /\ min_fold_size = 1
    /\ tiny_depth = 0
    /\ depth_threshold = <<0, 1>>
    /\ bound = {}
    /\ folds = AllMinusOne
    /\ n_folds = 0
    /\ folds_segmented = AllMinusOne
    /\ folds_pruned = AllMinusOne
    /\ folds_filled = AllMinusOne
    /\ impl = "DKTprotocol"
    /\ labels = AllMinusOne
    /\ pair_lists = <<>>
    /\ min_boundary = 1
    /\ sulci = AllMinusOne
    /\ todo = {}
    /\ n_sulci = 0
    /\ sulci_unfilled = AllMinusOne
    /\ bins_smooth = <<>>
    /\ InitDKT
    /\ InitOtherRoutines
    /\ cluster_size = 1
    /\ further_depths = <<>>

not_dkt == <<error, sulci_vars, folds_vars, other_routines>>

\* Lines 588-590: the next pair list, with empty left_pairs and right_pairs.
ForPairList ==
    /\ pc = "for pair_list"
    /\ pair_list_index < Len(dkt_pair_lists)
    /\ pair_list_index' = pair_list_index + 1
    /\ pair_index' = 0
    /\ left_pairs' = new_pairs(left_pairs)
    /\ right_pairs' = new_pairs(right_pairs)
    /\ pc' = "for pair"
    /\ UNCHANGED <<not_dkt, left_sulcus_label_pair_lists,
                   right_sulcus_label_pair_lists,
                   unique_sulcus_label_pair_list, sulcus_label_pair_lists>>

\* Lines 591-603: the next pair of the pair list.
ForPair ==
    /\ pc = "for pair"
    /\ pair_index < Len(dkt_pair_lists[pair_list_index])
    /\ LET pair == dkt_pair_lists[pair_list_index][pair_index + 1]
       IN  /\ left_pairs' = Append(left_pairs, left_pair(pair))
           /\ right_pairs' = Append(right_pairs, right_pair(pair))
           /\ unique_sulcus_label_pair_list' =
                  IF relabel
                  THEN append_if_new(
                           append_if_new(unique_sulcus_label_pair_list,
                                         left_pair(pair)),
                           right_pair(pair))
                  ELSE append_if_new(unique_sulcus_label_pair_list, pair)
    /\ pair_index' = pair_index + 1
    /\ UNCHANGED <<not_dkt, pc, pair_list_index,
                   left_sulcus_label_pair_lists,
                   right_sulcus_label_pair_lists, sulcus_label_pair_lists>>

\* Lines 604-605: the lists of the pair list are appended.
AppendPairs ==
    /\ pc = "for pair"
    /\ pair_index = Len(dkt_pair_lists[pair_list_index])
    /\ left_sulcus_label_pair_lists' =
           Append(left_sulcus_label_pair_lists, left_pairs)
    /\ right_sulcus_label_pair_lists' =
           Append(right_sulcus_label_pair_lists, right_pairs)
    /\ pc' = "for pair_list"
    /\ UNCHANGED <<not_dkt, pair_list_index, pair_index, left_pairs,
                   right_pairs, unique_sulcus_label_pair_list,
                   sulcus_label_pair_lists>>

\* Lines 606-610: sulcus_label_pair_lists, after the loop.
Concatenate ==
    /\ pc = "for pair_list"
    /\ pair_list_index = Len(dkt_pair_lists)
    /\ sulcus_label_pair_lists' =
           IF relabel
           THEN left_sulcus_label_pair_lists \o right_sulcus_label_pair_lists
           ELSE dkt_pair_lists
    /\ pc' = "defined"
    /\ UNCHANGED <<not_dkt, pair_list_index, pair_index, left_pairs,
                   right_pairs, left_sulcus_label_pair_lists,
                   right_sulcus_label_pair_lists,
                   unique_sulcus_label_pair_list>>

NextProtocol ==
    \/ ForPairList
    \/ ForPair
    \/ AppendPairs
    \/ Concatenate

SpecProtocol == InitProtocol /\ [][NextProtocol]_vars

\* The positions of the sulcus definitions of lists that hold the pair, in
\* either order of its two labels.
DefinitionsWith(lists, pair) ==
    {i \in 1..Len(lists) :
        \E j \in 1..Len(lists[i]) : SortPair(lists[i][j]) = SortPair(pair)}

\* The label pairs of all the sulcus definitions of lists.
PairsOf(lists) ==
    UNION {{lists[i][j] : j \in 1..Len(lists[i])} : i \in 1..Len(lists)}

\* Every label pair of lists is in one sulcus definition only.
OneDefinitionPerPair(lists) ==
    \A pair \in PairsOf(lists) :
        Cardinality(DefinitionsWith(lists, pair)) = 1

\* C15: in the lists DKTprotocol builds for the left and for the right
\* hemisphere no label pair is in two sulcus definitions: every label pair
\* of a hemisphere list belongs to exactly one sulcus index.
C15_DKTPairInOneDefinition ==
    /\ OneDefinitionPerPair(left_sulcus_label_pair_lists)
    /\ OneDefinitionPerPair(right_sulcus_label_pair_lists)

\* The class body has run: both hemisphere lists hold the 25 sulci, and the
\* one pair list <<12, 28>> of the first is found under index 1 only.
C15_Witness ==
    /\ pc = "defined"
    /\ Len(left_sulcus_label_pair_lists) = Len(dkt_pair_lists)
    /\ Len(right_sulcus_label_pair_lists) = Len(dkt_pair_lists)
    /\ DefinitionsWith(left_sulcus_label_pair_lists, <<1012, 1028>>) = {1}
    /\ DefinitionsWith(right_sulcus_label_pair_lists, <<2028, 2012>>) = {1}
    /\ Len(sulcus_label_pair_lists) = 2 * Len(dkt_pair_lists)

(***************************************************************************)
(* identify_sulci_from_folds: unique containment                           *)
(***************************************************************************)
\* The numbers of the sulci whose label set holds every non-negative label
\* of fold n.
Containing(n) == superset_indices(NonNegLabels(n), pair_lists)

\* Fold n has at least two labels, is no exact match and has a label
\* boundary pair of the protocol.
PastExactMatch(n) ==
    /\ Cardinality(NonNegLabels(n)) >= 2
    /\ ~ExactMatch(n)
    /\ MatchingBoundaries(n) # {}

\* What the ambiguous case alone makes of fold n.
Ambiguous(n) ==
    LET borders == detect_boundaries(FoldOf(n), labels, {})
    IN  special_case(AllMinusOne, FoldOf(n), labels, pair_lists, borders,
                     SelectSeq(unique_pairs_of(labels, borders),
                               LAMBDA x : x \in protocol_pairs(pair_lists))
                    ).sulci

\* C17: when identify_sulci_from_folds returns, a fold with at least two
\* labels that is no exact match and has a label boundary pair of the
\* protocol carries, on every vertex, the number of the one sulcus whose
\* label set holds all its labels if there is exactly one such sulcus, and
\* otherwise what the ambiguous case assigns vertex by vertex.
C17_UniqueContainment ==
    (Identified /\ impl = "identify_sulci_from_folds") =>
        \A n \in UniqueIDs(folds) :
            PastExactMatch(n) =>
                IF Cardinality(Containing(n)) = 1
                THEN \A v \in FoldOf(n) : sulci[v] = Min(Containing(n))
                ELSE \A v \in FoldOf(n) : sulci[v] = Ambiguous(n)[v]

(***************************************************************************)
(* identify_sulci_from_folds: the ambiguous case                           *)
(***************************************************************************)
\* Lines 460-465: fold_pairs_in_protocol of fold n.
FoldPairsInProtocol(n) ==
    SelectSeq(unique_pairs_of(labels,
                              detect_boundaries(FoldOf(n), labels, {})),
              LAMBDA x : x \in protocol_pairs(pair_lists))

\* Lines 432-505: the loop body reaches "special_case = True" for fold n.
InSpecialCase(n) ==
    LET ufl == unique_fold_labels_old(labels, FoldOf(n))
    IN  /\ Cardinality(ufl) >= 2
        /\ \A k \in 1..Len(pair_lists) : label_list(pair_lists, k) # ufl
        /\ FoldPairsInProtocol(n) # <<>>
        /\ Cardinality(superset_indices(ufl, pair_lists)) # 1

\* Two label pairs have a label in common.
SharesLabel(p, q) == Range(p) \cap Range(q) # {}

\* C18: for every fold of the ambiguous case that the loop of
\* identify_sulci_from_folds has passed, up to the return of the call, the
\* fold's protocol pairs are split into unique_pairs and
\* remainder_pairs: the two lists have no pair in common and hold every
\* protocol pair of the fold exactly once; a pair is in unique_pairs iff it
\* shares no label with another protocol pair of the fold, and in
\* remainder_pairs iff it shares one.
C18_UniqueAndRemainderPairs ==
    impl = "identify_sulci_from_folds" =>
        \A n \in Passed_folds :
            InSpecialCase(n) =>
                LET fpp == FoldPairsInProtocol(n)
                    both == unique_pairs(fpp) \o remainder_pairs(fpp)
                    alone(i) == \A j \in 1..Len(fpp) :
                                    j # i => ~SharesLabel(fpp[i], fpp[j])
                IN  /\ Range(unique_pairs(fpp))
                           \cap Range(remainder_pairs(fpp)) = {}
                    /\ \A i \in 1..Len(fpp) :
                          /\ Len(SelectSeq(both, LAMBDA q : q = fpp[i])) = 1
                          /\ fpp[i] \in Range(unique_pairs(fpp)) <=> alone(i)
                          /\ fpp[i] \in Range(remainder_pairs(fpp))
                                 <=> ~alone(i)

\* A call has returned with a fold of the ambiguous case whose protocol
\* pairs are all unique pairs, and one whose protocol pairs share a label.
C18_Witness ==
    /\ Identified
    /\ impl = "identify_sulci_from_folds"
    /\ \E n \in UniqueIDs(folds) :
          /\ InSpecialCase(n)
          /\ unique_pairs(FoldPairsInProtocol(n)) # <<>>
    /\ \E n \in UniqueIDs(folds) :
          /\ InSpecialCase(n)
          /\ Len(remainder_pairs(FoldPairsInProtocol(n))) >= 2

\* The numbers of the sulci whose label pair list holds the pair.
Owners(pair) ==
    {k - 1 : k \in {j \in 1..Len(pair_lists) :
                        SortPair(pair) \in pair_lists[j]}}

\* The unique pairs of fold n that hold the label.
UniquePairsWith(n, label) ==
    {q \in Range(unique_pairs(FoldPairsInProtocol(n))) : label \in Range(q)}

\* C19: in every fold of the ambiguous case that the loop of
\* identify_sulci_from_folds has passed, up to the return of the call, a
\* vertex whose label is in a unique pair carries the
\* number of the sulcus whose pair list holds that pair, and a vertex whose
\* label is in no unique pair is among the unassigned vertices handed to the
\* seeded segmentation: it is -1 or carries the sulcus of a remainder pair.
C19_UniquePairVerticesAssigned ==
    impl = "identify_sulci_from_folds" =>
        \A n \in Passed_folds :
            InSpecialCase(n) =>
                LET fpp == FoldPairsInProtocol(n)
                    left == unassigned(FoldOf(n), labels, unique_pairs(fpp))
                    IDs == Range(IDs_remainder_pairs(fpp, pair_lists))
                IN  \A v \in FoldOf(n) :
                        IF UniquePairsWith(n, labels[v]) # {}
                        THEN \A q \in UniquePairsWith(n, labels[v]) :
                                 Owners(q) = {sulci[v]}
                        ELSE /\ v \in left
                             /\ sulci[v] = -1 \/ sulci[v] \in IDs

\* A call has returned with a fold of the ambiguous case that has two
\* unique pairs of different sulci and a vertex assigned to each of the two
\* sulci.
C19_Witness ==
    /\ Identified
    /\ impl = "identify_sulci_from_folds"
    /\ \E n \in UniqueIDs(folds) :
          /\ InSpecialCase(n)
          /\ \E v, w \in FoldOf(n) :
                /\ UniquePairsWith(n, labels[v]) # {}
                /\ UniquePairsWith(n, labels[w]) # {}
                /\ sulci[v] # sulci[w]
                /\ sulci[v] # -1
                /\ sulci[w] # -1

(***************************************************************************)
(* identify_sulci_from_folds: seeded segmentation of the remainder         *)
(***************************************************************************)
\* The sizes the clusters of vertices take: half of the minimum region size
\* of line 567 and the whole of it.
ClusterSizes == {25, 50}

\* identify_sulci_from_folds before its loop, on meshes whose tracked
\* vertices stand for clusters of vertices.
InitSeeded ==
    /\ mesh = "chain"
    /\ python \in Pythons
    /\ segment_numbers \in NumberKinds
    /\ segment_seeds \in SeedPolicies
    /\ do_fill_holes = TRUE
    /\ pc = "loop"
    /\ error = "none"
    /\ impl = "identify_sulci_from_folds"
    /\ folds \in FoldArrays
    /\ labels \in [V -> Labels]
    /\ pair_lists \in Protocols
    /\ min_boundary = 1
    /\ sulci = AllMinusOne
    /\ todo = UniqueIDs(folds)
    /\ n_sulci = 0
    /\ sulci_unfilled = AllMinusOne
    /\ bins_smooth = <<>>
    /\ InitDKT
    /\ InitOtherRoutines
    /\ cluster_size \in ClusterSizes
    /\ further_depths = <<>>
    /\ npoints = NV * cluster_size
    /\ depths = AllMinusOne
    /\ min_fold_size = 1
    /\ tiny_depth = 0
    /\ depth_threshold = <<0, 1>>
    /\ bound = {}
    /\ n_folds = Cardinality(UniqueIDs(folds))
    /\ folds_segmented = AllMinusOne
    /\ folds_pruned = AllMinusOne
    /\ folds_filled = AllMinusOne

NextSeeded ==
    \/ IdentifySulciFold
    \/ IdentifySulciReturn

SpecSeeded == InitSeeded /\ [][NextSeeded]_vars

\* The two routines over all the families of inputs.
InitIdentify == InitSeeded \/ InitSulciWide \/ InitSulci

SpecIdentify == InitIdentify /\ [][NextSulci]_vars

\* The vertices of fold n on a boundary of the label pair, in either order
\* of its labels.
BoundaryVertices(n, pair) ==
    {e[1] : e \in {b \in detect_boundaries(FoldOf(n), labels, {}) :
                      SortPair(RawPair(labels, b)) = SortPair(pair)}}

\* The vertices of fold n left unassigned by its unique pairs.
StillUnassigned(n) ==
    unassigned(FoldOf(n), labels, unique_pairs(FoldPairsInProtocol(n)))

\* The seed lists of fold n.
SeedLists(n) ==
    seed_lists(labels, detect_boundaries(FoldOf(n), labels, {}),
               remainder_pairs(FoldPairsInProtocol(n)))

\* The segments grown from the seeds in the unassigned vertices of fold n,
\* whatever their size.
Segments(n) == segment_seeded(StillUnassigned(n), SeedLists(n), 1)

\* The number of vertices of the segment of the array of segments that
\* holds v.
SegmentSize(segments, v) ==
    cluster_size * Cardinality(IndicesOf(segments, segments[v]))

\* Fold n is in the ambiguous case and a segment grown from its seed lists
\* has min_region_size vertices or more.
SegmentKept(n) ==
    /\ InSpecialCase(n)
    /\ \E v \in StillUnassigned(n) :
          /\ Segments(n)[v] # -1
          /\ SegmentSize(Segments(n), v) >= subfold_min_region_size

Propagated(n) ==
    /\ ~FewerThanTwoLabels(unique_fold_labels(labels, FoldOf(n)))
    /\ MatchingBoundaries(n) # {}

\* sulci.py 257-298: the vertices of fold n seeded with ID for the label:
\* the boundary vertices, in segments of min_boundary vertices or more, of
\* the pairs of sulcus ID that hold the label.
SeededWith(n, label, ID) ==
    UNION {long_segments(BoundaryVertices(n, q), min_boundary) :
              q \in {p \in pair_lists[ID + 1] : label \in Range(p)}}

\* The sulci for which vertex v of fold n is seeded by extract_sulci.
SeedIDs(n, v) ==
    {ID \in SulcusIndices : v \in SeededWith(n, labels[v], ID)}

\* The positions of the seed lists of fold n that hold v, in
\* identify_sulci_from_folds.
SeedListsWith(n, v) ==
    {i \in 1..Len(SeedLists(n)) : v \in SeedLists(n)[i]}

\* C21: when sulcus identification has run its loop, a vertex that is a seed for
\* two remainder pairs carries the sulcus of the seed list of lower index:
\* the lower seed list position in identify_sulci_from_folds (if its
\* segment is kept), the lower sulcus number in extract_sulci.
C21_LowerSeedListWins ==
    Identified =>
        \A n \in UniqueIDs(folds) :
            /\ (impl = "identify_sulci_from_folds" /\ InSpecialCase(n)) =>
                  LET remainder == remainder_pairs(FoldPairsInProtocol(n))
                      segments == Segments(n)
                  IN  \A v \in StillUnassigned(n) :
                          (/\ Cardinality(SeedListsWith(n, v)) >= 2
                           /\ SegmentSize(segments, v)
                                  >= subfold_min_region_size) =>
                              Owners(remainder[Min(SeedListsWith(n, v))])
                                  = {sulci[v]}
            /\ (impl = "extract_sulci" /\ Propagated(n)) =>
                  \A v \in FoldOf(n) :
                      Cardinality(SeedIDs(n, v)) >= 2 =>
                          sulci[v] = Min(SeedIDs(n, v))

(***************************************************************************)
(* extract_sulci: short boundary segments                                  *)
(***************************************************************************)
\* The seeds array extract_sulci builds in fold n for the label.
SeedsOf(n, label) ==
    seeds_for(label, labels, pair_lists, min_boundary,
              detect_boundaries(FoldOf(n), labels, {}))

\* The pairs of the protocol that hold the label.
PairsWith(label) == {q \in AllPairs(pair_lists) : label \in Range(q)}

\* The boundary vertices of the pair in fold n joined to v by a path of
\* such vertices: the connected boundary segment of v.
BoundarySegment(n, pair, v) == Reach(BoundaryVertices(n, pair), {v})

\* C22: in every fold extract_sulci has propagated in, a vertex is a seed
\* for a label iff it is a boundary vertex of a protocol pair with that
\* label and, when min_boundary > 1, its connected boundary segment of that
\* pair has min_boundary vertices or more; with min_boundary <= 1 every
\* boundary vertex of the pair is a seed.
C22_ShortBoundarySegmentsNotSeeded ==
    (impl = "extract_sulci" /\ pc \in {"loop", "returned", "failed"}) =>
        \A n \in UniqueIDs(folds) \ todo :
            Propagated(n) =>
                \A label \in HemisphereLabels(impl, Labels) \ {-1} :
                    LET seeds == SeedsOf(n, label)
                    IN  \A v \in V :
                            seeds[v] # -1 <=>
                                \E q \in PairsWith(label) :
                                    /\ v \in BoundaryVertices(n, q)
                                    /\ \/ min_boundary <= 1
                                       \/ Cardinality(
                                              BoundarySegment(n, q, v))
                                              >= min_boundary

\* extract_sulci has run its loop with min_boundary = 2: a vertex that is alone
\* in its boundary segment is no seed, and the vertices of a boundary
\* segment of two vertices are seeds.
C22_Witness ==
    /\ Identified
    /\ impl = "extract_sulci"
    /\ min_boundary = 2
    /\ \E n \in UniqueIDs(folds) :
          /\ Propagated(n)
          /\ \E q \in AllPairs(pair_lists) :
                \E v \in BoundaryVertices(n, q) :
                    /\ labels[v] \in Range(q)
                    /\ Cardinality(BoundarySegment(n, q, v)) = 1
                    /\ SeedsOf(n, labels[v])[v] = -1
    /\ \E n \in UniqueIDs(folds) :
          /\ Propagated(n)
          /\ \E q \in AllPairs(pair_lists) :
                \E w \in BoundaryVertices(n, q) :
                    /\ labels[w] \in Range(q)
                    /\ Cardinality(BoundarySegment(n, q, w)) >= 2
                    /\ SeedsOf(n, labels[w])[w] # -1


(***************************************************************************)
(* Order of the returned fold IDs                                          *)
(***************************************************************************)

\* The smallest vertex index carrying fold ID n in the array f.
FirstVertex(f, n) == Min(IndicesOf(f, n))

\* C23: in the fold array extract_folds returns, fold IDs follow the order
\* of first appearance by vertex index: for fold IDs i < j the smallest
\* vertex index carrying i is smaller than the smallest vertex index
\* carrying j, also when hole filling has added vertices to folds.
C23_FoldIDsByFirstAppearance ==
    pc = "returned" =>
        \A i \in fold_numbers(folds) : \A j \in fold_numbers(folds) :
            i < j => FirstVertex(folds, i) < FirstVertex(folds, j)

\* A call returned two folds, one of which gained a vertex by hole filling.
C23_Witness ==
    /\ pc = "returned"
    /\ Cardinality(fold_numbers(folds)) >= 2
    /\ AddedByHoleFilling # {}


(***************************************************************************)
(* Hole filling and the exclusion range                                    *)
(***************************************************************************)

\* fill_holes has run.
FillDone == pc \in {"filled", "renumbered", "returned"}

\* Vertices whose depth lies in the exclusion range [0, tiny_depth].
InExcludeRange == {v \in V : 0 <= depths[v] /\ depths[v] <= tiny_depth}

\* Vertices of holes that border a fold: what fill_holes absorbs when no
\* depth is excluded.
EnclosedByFold ==
    {v \in V : /\ folds_pruned[v] = -1
               /\ fill_holes(folds_pruned, depths, 1, 0)[v] > -1}

\* C24: hole filling in extract_folds never absorbs a vertex whose depth
\* lies in [0, tiny_depth]: every such vertex that was -1 before hole
\* filling is -1 afterwards, also when a fold encloses it.
C24_ExcludedDepthsNotAbsorbed ==
    FillDone =>
        \A v \in InExcludeRange :
            folds_pruned[v] = -1 => folds_filled[v] = -1

\* fill_holes left out a vertex of excluded depth that a fold encloses.
C24_Witness ==
    /\ FillDone
    /\ \E v \in InExcludeRange \cap EnclosedByFold : folds_filled[v] = -1


(***************************************************************************)
(* watershed (section 4.4)                                                 *)
(***************************************************************************)
\* The point of every vertex: the tracked vertices lie on a line, one
\* length unit apart.
points == [v \in V |-> v]

\* Euclidean distance between the points of two vertices.
distance(v, w) ==
    IF points[v] >= points[w] THEN points[v] - points[w]
    ELSE points[w] - points[v]

\* Step 1: the local depth maxima of the candidates, a vertex whose depth is
\* at least the depth of every neighboring candidate, within tol hundredths.
maxima(d, cand, tol) ==
    {v \in cand :
        \A w \in neighbor_lists[v] \cap cand : 100 * d[v] >= 100 * d[w] - tol}

\* The basin number of seed v: its 0-based position among the seeds.
basin_of_seed(seeds, v) == Cardinality({u \in seeds : u < v})

RECURSIVE GrowBands(_, _, _, _)
\* Step 2: the seeds grow through the depth bands from the deepest to the
\* shallowest, each band by simultaneous frontier growth.
GrowBands(d, cand, acc, level) ==
    IF level < 0 THEN acc
    ELSE GrowBands(d, cand,
                   Array(GrowSeeds({v \in cand : d[v] >= level}, acc)),
                   level - 1)

\* Steps 1 to 3: every maximum is a seed and every candidate joins a basin
\* (a candidate is connected to a maximum of its component).
basins(d, cand, tol) ==
    LET seeds == maxima(d, cand, tol)
    IN  GrowBands(d, cand,
                  Array([v \in V |-> IF v \in seeds
                                     THEN basin_of_seed(seeds, v) ELSE -1]),
                  MaxDepth)

\* Two basins have neighboring vertices.
adjacent_basins(a, b1, b2) ==
    \E v \in IndicesOf(a, b1) : \E w \in IndicesOf(a, b2) :
        w \in neighbor_lists[v]

\* The greatest distance between a point of minimum depth and a point of
\* maximum depth of the candidates.
max_distance(d, cand) ==
    LET lo == Min({d[v] : v \in cand})
        hi == Max({d[v] : v \in cand})
    IN  Max({distance(p, q) : p \in {v \in cand : d[v] = lo},
                              q \in {v \in cand : d[v] = hi}})

\* Step 4: the basins of seeds s1 and s2 are merged when they are adjacent,
\* their seeds are closer than factor hundredths of max_distance and the
\* shallower seed is at least ratio hundredths as deep as the deeper one.
to_merge(d, cand, a, seeds, s1, s2, factor, ratio) ==
    LET shallow == IF d[s1] <= d[s2] THEN d[s1] ELSE d[s2]
        deep == IF d[s1] <= d[s2] THEN d[s2] ELSE d[s1]
    IN  /\ s1 # s2
        /\ adjacent_basins(a, basin_of_seed(seeds, s1),
                           basin_of_seed(seeds, s2))
        /\ 100 * distance(s1, s2) < factor * max_distance(d, cand)
        /\ 100 * shallow >= ratio * deep

RECURSIVE merge_class(_, _, _, _, _, _, _)
\* The seeds whose basins end up merged with the basins of class.
merge_class(d, cand, a, seeds, class, factor, ratio) ==
    LET more == {s \in seeds \ class : \E t \in class :
                    to_merge(d, cand, a, seeds, s, t, factor, ratio)}
    IN  IF more = {} THEN class
        ELSE merge_class(d, cand, a, seeds, class \cup more, factor, ratio)

\* Step 4: merged basins take the number of their deepest seed, the lowest
\* number on equal depths.
merge_basins(d, cand, a, tol, factor, ratio) ==
    LET seeds == maxima(d, cand, tol)
        class(s) == merge_class(d, cand, a, seeds, {s}, factor, ratio)
        keep(s) == Min({t \in class(s) : \A u \in class(s) : d[t] >= d[u]})
        seed(b) == CHOOSE s \in seeds : basin_of_seed(seeds, s) = b
    IN  [v \in V |->
            IF a[v] = -1 THEN -1
            ELSE basin_of_seed(seeds, keep(seed(a[v])))]

\* Step 5: a basin of fewer than min_sz vertices joins the basin of at
\* least min_sz vertices most present among its neighbors, and is discarded
\* when it has none.
merge_small_basins(a, min_sz) ==
    LET size(b) == Cardinality(IndicesOf(a, b))
        large == [v \in V |-> IF a[v] # -1 /\ size(a[v]) >= min_sz
                              THEN a[v] ELSE -1]
    IN  [v \in V |->
            IF a[v] # -1 /\ size(a[v]) < min_sz
            THEN BorderingRegion(large, IndicesOf(a, a[v]))
            ELSE a[v]]

\* watershed(depths, points, indices, neighbor_lists, min_size,
\* depth_factor, depth_ratio, tolerance, regrow=True)
watershed(d, cand, min_sz, factor, ratio, tol) ==
    IF cand = {} THEN AllMinusOne
    ELSE LET a == Array(basins(d, cand, tol))
             merged == Array(merge_basins(d, cand, a, tol, factor, ratio))
         IN  Array(merge_small_basins(merged, min_sz))

(***************************************************************************)
(* features/folds.py  extract_subfolds                                     *)
(***************************************************************************)
\* Values of the arguments depth_factor, depth_ratio and tolerance, in
\* hundredths: the defaults 0.25, 0.1, 0.01, and 1.0.
DepthFactors == {25, 100}
DepthRatios == {10, 100}
Tolerances == {1, 100}

\* Every variable of extract_folds and of the sulcus identification but
\* depths and folds, at rest.
IdleExtraction ==
    /\ mesh = "chain"
    /\ python = 2
    /\ do_fill_holes = TRUE
    /\ error = "none"
    /\ npoints = NV
    /\ min_fold_size = 1
    /\ tiny_depth = 0
    /\ depth_threshold = <<0, 1>>
    /\ bound = {}
    /\ n_folds = 0
    /\ folds_segmented = AllMinusOne
    /\ folds_pruned = AllMinusOne
    /\ folds_filled = AllMinusOne
    /\ labels = AllMinusOne
    /\ pair_lists = <<>>
    /\ min_boundary = 1
    /\ sulci = AllMinusOne
    /\ todo = {}
    /\ n_sulci = 0
    /\ sulci_unfilled = AllMinusOne
    /\ bins_smooth = <<>>
    /\ cluster_size = 1
    /\ further_depths = <<>>
    /\ InitDKT

\* extract_subfolds(depth_file, folds, min_size, depth_factor, depth_ratio,
\* tolerance) is entered.
InitSubfolds ==
    /\ IdleExtraction
    /\ SegmentUnobserved
    /\ IdleDeep
    /\ IdleEndpoints
    /\ pc = "start"
    /\ impl = "extract_subfolds"
    /\ depths \in [V -> DepthLevels]
    /\ folds \in FoldArrays \cup {AllMinusOne}
    /\ min_size \in {1, 2}
    /\ depth_factor \in DepthFactors
    /\ depth_ratio \in DepthRatios
    /\ tolerance \in Tolerances
    /\ subfold_ids = AllMinusOne
    /\ n_subfolds = 0

\* Line 332: indices_folds = [i for i,x in enumerate(folds) if x > -1]
indices_folds == {v \in V : folds[v] > -1}

\* Lines 334-335: the values written in the call of watershed, in
\* hundredths.
watershed_depth_factor == 25
watershed_depth_ratio == 10
watershed_tolerance == 1

\* Lines 332-355 with save_file = False: the subfolds are the basins that
\* watershed returns.
ExtractSubfolds ==
    /\ pc = "start"
    /\ impl = "extract_subfolds"
    /\ subfold_ids' = watershed(depths, indices_folds, min_size,
                                watershed_depth_factor,
                                watershed_depth_ratio, watershed_tolerance)
    /\ n_subfolds' = Cardinality(UniqueIDs(subfold_ids'))
    /\ pc' = "returned"
    /\ UNCHANGED <<dkt, sulci_vars, folds_vars, error, deep_vars,
                   endpoint_vars, min_size, depth_factor, depth_ratio,
                   tolerance>>

NextSubfolds == ExtractSubfolds

SpecSubfolds == InitSubfolds /\ [][NextSubfolds]_vars

\* C26: extract_subfolds applies the depth_factor, depth_ratio and
\* tolerance of its caller to the watershed step: the subfolds it returns
\* are the basins that watershed finds with those three values.
C26_CallerArgumentsReachWatershed ==
    (impl = "extract_subfolds" /\ pc = "returned") =>
        subfold_ids = watershed(depths, indices_folds, min_size,
                                depth_factor, depth_ratio, tolerance)

\* A call returned the basins of the caller's values, which were other than
\* 0.25, 0.1 and 0.01.
C26_Witness ==
    /\ impl = "extract_subfolds"
    /\ pc = "returned"
    /\ <<depth_factor, depth_ratio, tolerance>> #
           <<watershed_depth_factor, watershed_depth_ratio,
             watershed_tolerance>>
    /\ n_subfolds >= 2
    /\ subfold_ids = watershed(depths, indices_folds, min_size,
                               depth_factor, depth_ratio, tolerance)


(***************************************************************************)
(* features/folds.py  extract_folds: the initial folds (lines 156-164)     *)
(***************************************************************************)

\* Line 164 has run: folds = segment(indices_deep, neighbor_lists).
SegmentDone == impl = "extract_folds" /\ "folds" \in bound

\* Two deep vertices are joined by a path of adjacent deep vertices.
JoinedByDeepPath(v, w) == w \in Component(Deep, v)

\* C27: after the segmentation step of extract_folds the deep vertices, and
\* only they, carry a fold ID; two deep vertices carry the same ID if and
\* only if a path of adjacent deep vertices joins them (the vertices with
\* the ID of v are those joined to v), and no two distinct initial folds
\* hold adjacent vertices.
C27_InitialFoldsAreDeepComponents ==
    SegmentDone =>
        /\ \A v \in V : folds_segmented[v] # -1 <=> v \in Deep
        /\ \A v \in Deep :
              LET joined == Component(Deep, v)
                  same == IndicesOf(folds_segmented, folds_segmented[v])
              IN  joined = same
        /\ \A v \in Deep : \A w \in neighbor_lists[v] \cap Deep :
              folds_segmented[w] = folds_segmented[v]

\* The segmentation joined two deep vertices that are not adjacent, through
\* a third deep vertex, and left out a neighbor that is not deep.
C27_Witness ==
    /\ SegmentDone
    /\ \E v \in Deep : \E w \in Deep \ neighbor_lists[v] :
          /\ v # w
          /\ JoinedByDeepPath(v, w)
          /\ folds_segmented[v] = folds_segmented[w]
          /\ \E u \in neighbor_lists[v] : folds_segmented[u] = -1


(***************************************************************************)
(* extract/extract_folds.py  find_deep_vertices                            *)
(***************************************************************************)
\* The surface areas of the model: equal areas, areas growing with the
\* vertex index, areas shrinking with it, one large area at the hub.
AreaArrays ==
    {[v \in V |-> 1], [v \in V |-> v], [v \in V |-> NV + 1 - v],
     [v \in V |-> IF v = 3 THEN NV ELSE 1]}

\* The values of fraction_folds, in tenths.
Fractions == {0, 3, 5, 7, 10}

\* The routines of extract_folds.py that start from the depth and area
\* files: find_deep_vertices, and extract_folds and extract_sulci, which
\* call it first (lines 181 and 676).
DepthFileRoutines ==
    {"find_deep_vertices", "extract_folds.extract_folds",
     "extract_folds.extract_sulci"}

\* One of these routines is entered.
InitDeep ==
    /\ IdleExtraction
    /\ SegmentUnobserved
    /\ IdleSubfolds
    /\ IdleEndpoints
    /\ pc = "start"
    /\ impl \in DepthFileRoutines
    /\ depths \in [V -> DepthLevels]
    /\ areas \in AreaArrays
    /\ fraction_folds \in Fractions
    /\ folds = AllMinusOne

RECURSIVE argsort_from(_, _)
\* The vertices of left by ascending depth, equal depths by ascending index.
argsort_from(d, left) ==
    IF left = {} THEN <<>>
    ELSE LET v == Min({u \in left : \A w \in left : d[u] <= d[w]})
         IN  <<v>> \o argsort_from(d, left \ {v})

\* Line 76: indices_asc = np.argsort(depths)
indices_asc(d) == argsort_from(d, V)

\* Line 77: indices_des = indices_asc[::-1]
indices_des(d) ==
    [i \in 1..Len(indices_asc(d)) |->
        indices_asc(d)[Len(indices_asc(d)) + 1 - i]]

\* seq[n::], for a 0-based position n.
SliceFrom(seq, n) == SubSeq(seq, n + 1, Len(seq))

\* np.sum(a[seq])
RECURSIVE SumOver(_, _)
SumOver(a, seq) ==
    IF seq = <<>> THEN 0 ELSE a[Head(seq)] + SumOver(a, Tail(seq))

\* Line 79: total_area = np.sum(areas)
total_area(a) == SumOver(a, indices_asc(a))

RECURSIVE add_vertices(_, _, _, _, _)
\* Lines 92-96: vertices are added in the order of seq until ten times
\* sum_area is at least target, ten times fraction_area.
add_vertices(f, a, seq, sum_area, target) ==
    IF seq = <<>> THEN f
    ELSE LET vertex == Head(seq)
             marked == [f EXCEPT ![vertex] = 1]
         IN  IF 10 * (sum_area + a[vertex]) >= target THEN marked
             ELSE add_vertices(marked, a, Tail(seq), sum_area + a[vertex],
                               target)

RECURSIVE remove_vertices(_, _, _, _, _)
\* Lines 101-105: vertices are removed in the order of seq, their areas
\* added to sum_area, until ten times sum_area is at most target.
remove_vertices(f, a, seq, sum_area, target) ==
    IF seq = <<>> THEN f
    ELSE LET vertex == Head(seq)
             unmarked == [f EXCEPT ![vertex] = -1]
         IN  IF 10 * (sum_area + a[vertex]) <= target THEN unmarked
             ELSE remove_vertices(unmarked, a, Tail(seq),
                                  sum_area + a[vertex], target)

\* Lines 76-109 of find_deep_vertices, for fraction_folds = tenths / 10.
find_deep_vertices(d, a, tenths) ==
    LET des == indices_des(d)
        first == np_round(tenths * NV, 10)
        initial == SubSeq(des, 1, first)
        marked == [v \in V |->
                     IF \E i \in 1..first : des[i] = v THEN 1 ELSE -1]
        sum_area == SumOver(a, initial)
        target == tenths * total_area(a)
        second == np_round((10 - tenths) * NV, 10)
    IN  IF 10 * sum_area <= target
        THEN Array(add_vertices(marked, a, SliceFrom(des, first), sum_area,
                                target))
        ELSE Array(remove_vertices(marked, a,
                                   SliceFrom(indices_asc(d), second),
                                   sum_area, target))

\* What numpy does with the float that np.round returns as a slice bound
\* (lines 86, 87, 92, 101): releases before 1.12 take its whole number,
\* later ones raise TypeError.
FloatSliceBounds == {"accepted", "TypeError"}

\* The body of find_deep_vertices, from entry to its end.  Line 82 sets
\* folds to -1 everywhere and lines 85-105 mark the vertices; the print of
\* line 107 formats '{1:.2f}' with one argument and raises IndexError, so
\* that line 109, return folds, is never reached.  folds is the array of
\* that body; no caller receives it.
RaiseInFindDeepVertices ==
    /\ \E numpy \in FloatSliceBounds :
          IF numpy = "accepted"
          THEN /\ folds' = find_deep_vertices(depths, areas, fraction_folds)
               /\ error' = "IndexError"
          ELSE /\ folds' = AllMinusOne
               /\ error' = "TypeError"
    /\ pc' = "failed"
    /\ UNCHANGED <<dkt, other_routines, sulci_vars, inputs, snapshots,
                   bins_smooth,
                   depth_threshold, bound, n_folds>>

\* The call of find_deep_vertices.
FindDeepVertices ==
    /\ pc = "start"
    /\ impl = "find_deep_vertices"
    /\ RaiseInFindDeepVertices

\* extract_folds.py 175-233, extract_folds: line 181 calls
\* find_deep_vertices and the error raised there ends the call.  The
\* segmentation of line 186, the hole filling of lines 190-228 and the
\* return of line 233 are never reached.
ExtractFoldsFromDepthFile ==
    /\ pc = "start"
    /\ impl = "extract_folds.extract_folds"
    /\ RaiseInFindDeepVertices

\* extract_folds.py 676-752, extract_sulci: line 676 calls
\* find_deep_vertices and the error raised there ends the call.  The
\* propagation of lines 677-709, the hole filling of lines 714-747 and the
\* return of line 752 are never reached.
ExtractSulciFromDepthFile ==
    /\ pc = "start"
    /\ impl = "extract_folds.extract_sulci"
    /\ RaiseInFindDeepVertices

NextDeep ==
    \/ FindDeepVertices
    \/ ExtractFoldsFromDepthFile
    \/ ExtractSulciFromDepthFile

SpecDeep == InitDeep /\ [][NextDeep]_vars

\* C28: find_deep_vertices returns an array in which every entry is 1 or -1
\* and no vertex marked -1 is strictly deeper than a vertex marked 1,
\* whether the initial selection covers less than the target area or more.
C28_DeepestVerticesMarked ==
    (impl = "find_deep_vertices" /\ pc \in {"returned", "failed"}) =>
        /\ pc = "returned"
        /\ \A v \in V : folds[v] \in {1, -1}
        /\ \A v \in V : \A w \in V :
              (folds[v] = -1 /\ folds[w] = 1) => ~(depths[v] > depths[w])

\* The marks of lines 85-105 alone: the array the call holds when its last
\* print fails has a vertex marked -1 that is deeper than a vertex marked 1.
MarksOutOfOrder ==
    /\ impl = "find_deep_vertices"
    /\ error = "IndexError"
    /\ \E v \in V : \E w \in V :
          folds[v] = -1 /\ folds[w] = 1 /\ depths[v] > depths[w]

(***************************************************************************)
(* extract/extract_folds.py  hole filling in extract_folds, extract_sulci  *)
(***************************************************************************)
\* The call of extract_folds or extract_sulci has ended.
HolesEnded ==
    /\ impl \in {"extract_folds.extract_folds", "extract_folds.extract_sulci"}
    /\ pc \in {"returned", "failed"}

\* The region array before the hole filling (after lines 186, 704) and the
\* array of the routine at its end.
Unfilled ==
    IF impl = "extract_folds.extract_folds" THEN folds_pruned
    ELSE sulci_unfilled
Filled == IF impl = "extract_folds.extract_folds" THEN folds_filled ELSE sulci

\* The connected components of the unassigned vertices.
UnassignedComponents == segment({v \in V : Unfilled[v] = -1}, 1)

\* Component c is fully surrounded by region r.
SurroundedBy(c, r) ==
    /\ HoleBorder(IndicesOf(UnassignedComponents, c)) # {}
    /\ \A w \in HoleBorder(IndicesOf(UnassignedComponents, c)) :
          Unfilled[w] = r

\* C9: extract_folds and extract_sulci return, and in the array they
\* return every unassigned component other than the largest that is fully
\* surrounded by one region ID carries that ID, while the largest
\* unassigned component is still -1.
C9_HolesFilledBackgroundKept ==
    HolesEnded =>
        /\ pc = "returned"
        /\ UniqueIDs(UnassignedComponents) # {} =>
              LET bg == LargestComponent(UnassignedComponents)
              IN  /\ \A c \in UniqueIDs(UnassignedComponents) \ {bg} :
                        \A r \in UniqueIDs(Unfilled) :
                            SurroundedBy(c, r) =>
                                \A v \in IndicesOf(UnassignedComponents, c) :
                                    Filled[v] = r
                  /\ \A v \in IndicesOf(UnassignedComponents, bg) :
                        Filled[v] = -1

\* The number of vertices of unassigned component c.
ComponentSize(c) == Cardinality(IndicesOf(UnassignedComponents, c))

\* The unassigned components the hole filling left at -1.
LeftOut ==
    {c \in UniqueIDs(UnassignedComponents) :
        \A v \in IndicesOf(UnassignedComponents, c) : Filled[v] = -1}

\* C25: extract_folds and extract_sulci reach the selection of the
\* background and return; the component they left out of the filling as
\* the background is the unassigned component with the greatest vertex
\* count, the one of lowest component index when several have that count,
\* and no other component that touches a region is left out.
C25_BackgroundIsLargestComponent ==
    HolesEnded =>
        /\ pc = "returned"
        /\ UniqueIDs(UnassignedComponents) # {} =>
              \E bg \in LeftOut :
                 /\ \A c \in UniqueIDs(UnassignedComponents) :
                       \/ ComponentSize(c) < ComponentSize(bg)
                       \/ /\ ComponentSize(c) = ComponentSize(bg)
                          /\ bg <= c
                 /\ \A c \in LeftOut \ {bg} :
                       BorderingRegion(Unfilled,
                           IndicesOf(UnassignedComponents, c)) = -1

(***************************************************************************)
(* Sulcus identification: the vertices outside the folds                   *)
(***************************************************************************)

\* The vertices in no fold.
NonFold == {v \in V : folds[v] = -1}

WrittenBySegments(n) ==
    /\ SegmentKept(n)
    /\ \E v \in StillUnassigned(n) :
          /\ Segments(n)[v] # -1
          /\ sulci[v] \in Range(IDs_remainder_pairs(FoldPairsInProtocol(n),
                                                    pair_lists))

WrittenByUniquePairs ==
    /\ impl = "extract_sulci"
    /\ Identified
    /\ \E n \in UniqueIDs(folds) : \E pair \in MatchingBoundaries(n) :
          /\ \A q \in MatchingBoundaries(n) : q = pair
          /\ Truthy(first_ID(pair, pair_lists))
          /\ \E v \in NonFold : \E w \in neighbor_lists[v] :
                /\ w \in FoldOf(n)
                /\ sulci[w] = first_ID(pair, pair_lists)
                /\ sulci[v] = -1

\* extract_sulci has run its loop; propagate has numbered a vertex next to a
\* vertex outside the folds.
WrittenByPropagate ==
    /\ impl = "extract_sulci"
    /\ Identified
    /\ \E n \in UniqueIDs(folds) :
          /\ Cardinality(MatchingBoundaries(n)) >= 2
          /\ \E v \in NonFold : \E w \in neighbor_lists[v] :
                /\ w \in FoldOf(n)
                /\ Cardinality(SeedIDs(n, w)) >= 2
                /\ sulci[w] # -1
                /\ sulci[v] = -1

(***************************************************************************)
(* x/misc.py  find_segment_endpoints                                       *)
(***************************************************************************)
\* Likelihood values, in twentieths: 0, 0.05, 0.1 and 0.15.
LikelihoodLevels == 0..3

\* Values of the argument step.
Steps == {1, 2}

\* The folds handed over as indices: the whole mesh and the mesh without
\* its last vertex.
IndexSets == {V, V \ {NV}}

\* A fraction <<numerator, denominator>> times another.
Times(a, b) == <<a[1] * b[1], a[2] * b[2]>>

\* a < b for fractions with positive denominators.
Less(a, b) == a[1] * b[2] < b[1] * a[2]

\* L[x] as a fraction.
L(x) == <<likelihoods[x], 20>>

\* Variant: a factor that leaves the threshold where it is.
threshold_factor_one == <<1, 1>>

\* Line 170: threshold_factor = 0.9
threshold_factor == <<9, 10>>

\* Line 171: min_threshold = 0.1
min_threshold == <<1, 10>>

\* find_segment_endpoints(indices, neighbor_lists, likelihoods, step) is
\* entered; the likelihoods outside the fold are never read and are 0.
InitEndpoints ==
    /\ IdleExtraction
    /\ segment_numbers = "int"
    /\ segment_seeds \in SeedPolicies
    /\ IdleSubfolds
    /\ IdleDeep
    /\ pc = "start"
    /\ impl = "find_segment_endpoints"
    /\ depths = AllMinusOne
    /\ folds = AllMinusOne
    /\ indices \in IndexSets
    /\ likelihoods \in {l \in [V -> LikelihoodLevels] :
                           \A v \in V \ indices : l[v] = 0}
    /\ step \in Steps
    /\ threshold = <<0, 1>>
    /\ prev_threshold = <<0, 1>>
    /\ R = {}
    /\ P = {}
    /\ X = {}
    /\ E = {}
    /\ continue_loop = FALSE
    /\ stack = <<>>

\* Lines 308-309: D is 2 on the fold and 1 elsewhere.
D == [v \in V |-> IF v \in indices THEN 2 ELSE 1]

\* Line 310: B, the vertices with a neighbor of the other value of D.
B == {e[1] : e \in detect_boundaries(V, D, {})}

\* a[np.argmax(L[a])] for the vertices of a in ascending order: the first
\* vertex of greatest likelihood.
ArgMax(a) == Min({v \in a : \A w \in a : likelihoods[v] >= likelihoods[w]})

\* Lines 313-328: R, X, E are empty, P is the vertex of greatest likelihood
\* and the threshold is its likelihood.
Start ==
    /\ impl = "find_segment_endpoints"
    /\ pc = "start"
    /\ R' = {}
    /\ X' = {}
    /\ E' = {}
    /\ P' = {ArgMax(indices)}
    /\ threshold' = L(ArgMax(indices))
    /\ prev_threshold' = prev_threshold
    /\ continue_loop' = TRUE
    /\ pc' = "while"
    /\ UNCHANGED <<dkt, sulci_vars, folds_vars, error, subfold_vars,
                   deep_vars, likelihoods, indices, step, stack>>

\* Lines 336-337, 342-343: T = [x for x in indices if L[x] >= t if L[x] <
\* prev]
BandBetween(t, prev) ==
    {x \in indices : ~Less(L(x), t) /\ Less(L(x), prev)}

\* Lines 329-352: one pass of "while continue_loop" up to the call of creep.
\* Above min_threshold the threshold is lowered and the vertices of the new
\* band join R (the inner loop runs when the band is empty); otherwise all
\* vertices under the threshold join R and the loop is told to stop.
WhileStep ==
    /\ impl = "find_segment_endpoints"
    /\ pc = "while"
    /\ prev_threshold' = threshold
    /\ IF Less(min_threshold, threshold)
       THEN /\ threshold' = Times(threshold_factor, threshold)
            /\ continue_loop' = continue_loop
            /\ IF BandBetween(threshold', threshold) = {}
               THEN /\ pc' = "decrease"
                    /\ R' = R
               ELSE /\ pc' = "creep"
                    /\ R' = R \cup BandBetween(threshold', threshold)
       ELSE /\ R' = R \cup {x \in indices : Less(L(x), threshold)}
            /\ continue_loop' = FALSE
            /\ threshold' = threshold
            /\ pc' = "creep"
    /\ UNCHANGED <<dkt, sulci_vars, folds_vars, error, subfold_vars,
                   deep_vars, likelihoods, indices, step, P, X, E,
                   stack>>

\* Lines 340-346: one pass of "while decrease_threshold".
Decrease ==
    /\ impl = "find_segment_endpoints"
    /\ pc = "decrease"
    /\ threshold' = Times(threshold, threshold_factor)
    /\ IF BandBetween(threshold', prev_threshold) # {}
          \/ Less(threshold', min_threshold)
       THEN /\ R' = R \cup BandBetween(threshold', prev_threshold)
            /\ pc' = "creep"
       ELSE /\ R' = R
            /\ pc' = "decrease"
    /\ UNCHANGED <<dkt, sulci_vars, folds_vars, error, subfold_vars,
                   deep_vars, likelihoods, indices, step, prev_threshold,
                   P, X, E, continue_loop, stack>>

RECURSIVE segment_max_steps(_, _, _)
\* The vertices that segment(R, neighbor_lists, min_region_size=1,
\* seed_lists=[P], max_steps=n) labels, from the labeled vertices seen so
\* far (at first the seeds): these and the candidates that n frontier
\* expansions reach from them.
segment_max_steps(cand, seen, n) ==
    LET next == {w \in cand \ seen : \E u \in seen : w \in neighbor_lists[u]}
    IN  IF n = 0 \/ next = {} THEN seen
        ELSE segment_max_steps(cand, seen \cup next, n - 1)

\* Lines 234-241: "Propagate P into R, and call these new vertices N".  PN
\* are the vertices segment labeled, the seeds it labels and the vertices
\* of R that step expansions reach from them; N is PN without the seeds.
\* Of the seeds P those outside R are labeled if segment_seeds says so.
NewVertices ==
    LET labeled_seeds == IF segment_seeds = "anywhere" THEN P ELSE P \cap R
    IN  segment_max_steps(R, labeled_seeds, step) \ P

RECURSIVE SegmentsOf(_, _)
\* Lines 288-294: the segments N_i of N, in the order of their numbers.
SegmentsOf(cand, left) ==
    IF left = {} THEN <<>>
    ELSE LET c == Component(cand, Min(left))
         IN  <<c>> \o SegmentsOf(cand, left \ c)

\* Line 165: min_size = 1
min_size_of_segment == 1

\* Lines 231-298: a call of creep up to its loop over the segments.  P and
\* N leave R; with no new vertex the call returns, with new vertices on the
\* border it adds an endpoint and returns, otherwise it goes through the
\* segments of N.
Creep ==
    /\ impl = "find_segment_endpoints"
    /\ pc = "creep"
    /\ R' = (R \ P) \ NewVertices
    /\ IF NewVertices = {}
       THEN /\ pc' = "return"
            /\ UNCHANGED <<E, stack>>
       ELSE IF B \cap NewVertices # {}
       THEN /\ E' = E \cup {ArgMax(B \cap NewVertices)}
            /\ pc' = "return"
            /\ UNCHANGED stack
       ELSE /\ stack' = Append(stack,
                           [N_segments |->
                                SegmentsOf(NewVertices, NewVertices),
                            n_segments |->
                                Len(SegmentsOf(NewVertices, NewVertices))])
            /\ pc' = "loop"
            /\ UNCHANGED E
    /\ UNCHANGED <<dkt, sulci_vars, folds_vars, error, subfold_vars,
                   deep_vars, likelihoods, indices, step, threshold,
                   prev_threshold, P, X, continue_loop>>

\* Lines 293-301: the next segment N_i of the innermost open call is handed
\* to creep as P if it has min_size vertices or is the only segment; after
\* the last segment the call returns.
Loop ==
    /\ impl = "find_segment_endpoints"
    /\ pc = "loop"
    /\ LET open == stack[Len(stack)]
       IN  IF open.N_segments = <<>>
           THEN /\ stack' = SubSeq(stack, 1, Len(stack) - 1)
                /\ pc' = "return"
                /\ UNCHANGED P
           ELSE /\ stack' = [stack EXCEPT
                                ![Len(stack)].N_segments = Tail(@)]
                /\ IF Cardinality(Head(open.N_segments))
                          >= min_size_of_segment
                      \/ open.n_segments = 1
                   THEN /\ P' = Head(open.N_segments)
                        /\ pc' = "creep"
                   ELSE /\ pc' = "loop"
                        /\ UNCHANGED P
    /\ UNCHANGED <<dkt, sulci_vars, folds_vars, error, subfold_vars,
                   deep_vars, likelihoods, indices, step, threshold,
                   prev_threshold, R, X, E, continue_loop>>

\* Line 304: return R, P, X, E, to the loop of the calling creep or to line
\* 355 of the threshold loop, which goes on or leaves (lines 379-381).
CreepReturn ==
    /\ impl = "find_segment_endpoints"
    /\ pc = "return"
    /\ pc' = IF stack # <<>> THEN "loop"
             ELSE IF continue_loop THEN "while" ELSE "returned"
    /\ UNCHANGED <<dkt, sulci_vars, folds_vars, error, subfold_vars,
                   deep_vars, endpoint_vars>>

NextEndpoints ==
    \/ Start
    \/ WhileStep
    \/ Decrease
    \/ Creep
    \/ Loop
    \/ CreepReturn

\* The call runs on as long as it has a step to take.
SpecEndpoints ==
    InitEndpoints /\ [][NextEndpoints]_vars /\ WF_vars(NextEndpoints)

\* A pass of the threshold loop lowers the threshold while it is above
\* min_threshold and is the final pass otherwise.
ThresholdLowersOrLastPass ==
    /\ (pc = "while" /\ Less(min_threshold, threshold)
            => Less(threshold', threshold) /\ continue_loop')
    /\ (pc = "while" /\ ~Less(min_threshold, threshold)
            => ~continue_loop' /\ pc' = "creep")
    /\ (pc = "decrease" => Less(threshold', threshold))

\* A call of creep without new vertices returns; a call that goes on to
\* recurse has taken a non-empty set of new vertices out of R.
CreepReturnsOrShrinks ==
    pc = "creep" =>
        /\ (NewVertices = {} => pc' = "return" /\ stack' = stack)
        /\ (pc' = "loop" =>
                /\ NewVertices # {}
                /\ NewVertices \subseteq R
                /\ R' \subseteq R \ NewVertices)

\* The calls of creep open below the one the threshold loop made do not
\* outnumber the vertices R has lost.
CreepDepthBounded ==
    Len(stack) + Cardinality(R) <= Cardinality(indices)

\* Claim C30: find_segment_endpoints terminates for every fold, likelihood
\* array and step >= 1: each pass of the threshold loop lowers the threshold
\* while it is above min_threshold and the pass after that is the last;
\* each call of creep returns when it finds no new vertices and otherwise
\* removes a non-empty set of new vertices from R before it recurses, so
\* that the open calls of creep never outnumber the vertices R has lost;
\* and the call returns.
C30_FindSegmentEndpointsTerminates ==
    /\ [][ThresholdLowersOrLastPass /\ CreepReturnsOrShrinks]_vars
    /\ []CreepDepthBounded
    /\ <>(pc = "returned")

\* A call of creep made by a call of creep that was itself made by creep is
\* about to look for new vertices, in the last pass of the threshold loop.
C30_Witness ==
    /\ impl = "find_segment_endpoints"
    /\ pc = "creep"
    /\ Len(stack) >= 2
    /\ ~continue_loop

====
